---- MODULE Spec2Model ----
(***************************************************************************)
(* Developer-experience ROI calculator: InputValidator and                 *)
(* BusinessModelCalculator (src/src/services).                             *)
(*                                                                         *)
(* A JavaScript value held by a numeric Scenario field is a record         *)
(*   [t, n, d]  with t in {"null","undefined","NaN","inf","-inf","-0",     *)
(*   "num"}; for t = "num" the value is the rational n/d in lowest terms   *)
(*   (d > 0).  Arithmetic is exact: the rounding of IEEE doubles is not    *)
(*   modelled, the special values and the coercions of null/undefined are. *)
(***************************************************************************)
EXTENDS Integers, Sequences, FiniteSets, TLC

VARIABLES
  scenario,   \* the Scenario the caller holds and passes to the services
  lastCall,   \* name of the operation called last
  callArgs,   \* arguments of a single-field validator call
  outcome,    \* what the last call returned or threw
  calls,      \* number of calls made
  previous,   \* per entry point, the Scenario and outcome of its first call
  ranges,     \* the exported VALIDATION_RANGES object
  dashboard,  \* state of CalculatorDashboard and of its useInputValidation hook
  store       \* the scenarios kept in local storage by ScenarioManager

vars ==
  <<scenario, lastCall, callArgs, outcome, calls, previous, ranges, dashboard, store>>

(***************************************************************************)
(* JavaScript numbers                                                      *)
(***************************************************************************)
Abs(i) == IF i < 0 THEN -i ELSE i

RECURSIVE Gcd(_, _)
Gcd(a, b) == IF b = 0 THEN a ELSE Gcd(b, a % b)

Null == [t |-> "null", n |-> 0, d |-> 1]

Undefined == [t |-> "undefined", n |-> 0, d |-> 1]

NaN == [t |-> "NaN", n |-> 0, d |-> 1]

Infinity == [t |-> "inf", n |-> 0, d |-> 1]

NegInfinity == [t |-> "-inf", n |-> 0, d |-> 1]

NegZero == [t |-> "-0", n |-> 0, d |-> 1]

Reduce(n, d, g) == [t |-> "num", n |-> n \div g, d |-> d \div g]

Rat(n, d) == Reduce(n, d, Gcd(Abs(n), d))

Num(n) == [t |-> "num", n |-> n, d |-> 1]

Zero == Num(0)

\* ToNumber: null coerces to 0, undefined to NaN
ToNumber(x) == IF x.t = "null" THEN Zero ELSE IF x.t = "undefined" THEN NaN ELSE x

IsInf(x) == x.t \in {"inf", "-inf"}

IsZero(x) == x.t = "-0" \/ (x.t = "num" /\ x.n = 0)

Sign(x) == IF x.t \in {"-inf", "-0"} \/ (x.t = "num" /\ x.n < 0) THEN -1 ELSE 1

SignedInf(s) == IF s < 0 THEN NegInfinity ELSE Infinity

SignedZero(s) == IF s < 0 THEN NegZero ELSE Zero

\* Operands are evaluated once, before the operator is applied.
Eval1(x, F(_)) == CHOOSE r \in {F(a) : a \in {x}} : TRUE

Eval2(x, y, F(_, _)) == CHOOSE r \in {F(a, b) : a \in {x}, b \in {y}} : TRUE

Eval3(x, y, z, F(_, _, _)) ==
  CHOOSE r \in {F(a, b, c) : a \in {x}, b \in {y}, c \in {z}} : TRUE

MulNumbers(a, b) ==
  LET s == Sign(a) * Sign(b)
  IN  IF a.t = "NaN" \/ b.t = "NaN" THEN NaN
      ELSE IF IsInf(a) \/ IsInf(b)
           THEN IF IsZero(a) \/ IsZero(b) THEN NaN ELSE SignedInf(s)
      ELSE IF IsZero(a) \/ IsZero(b) THEN SignedZero(s)
      ELSE LET g1 == Gcd(Abs(a.n), b.d)
               g2 == Gcd(Abs(b.n), a.d)
           IN  [t |-> "num",
                n |-> (a.n \div g1) * (b.n \div g2),
                d |-> (a.d \div g2) * (b.d \div g1)]

\* a * b on doubles (exact on finite values)
Mul(a, b) == Eval2(ToNumber(a), ToNumber(b), MulNumbers)

DivNumbers(a, b) ==
  LET s == Sign(a) * Sign(b)
  IN  IF a.t = "NaN" \/ b.t = "NaN" THEN NaN
      ELSE IF IsInf(a) THEN (IF IsInf(b) THEN NaN ELSE SignedInf(s))
      ELSE IF IsInf(b) THEN SignedZero(s)
      ELSE IF IsZero(b) THEN (IF IsZero(a) THEN NaN ELSE SignedInf(s))
      ELSE IF IsZero(a) THEN SignedZero(s)
      ELSE MulNumbers(a, [t |-> "num", n |-> Sign(b) * b.d, d |-> Abs(b.n)])

\* a / b on doubles
Div(a, b) == Eval2(ToNumber(a), ToNumber(b), DivNumbers)

SubNumbers(a, b) ==
  IF a.t = "NaN" \/ b.t = "NaN" THEN NaN
  ELSE IF IsInf(a) THEN (IF b.t = a.t THEN NaN ELSE a)
  ELSE IF IsInf(b) THEN SignedInf(-Sign(b))
  ELSE Rat(a.n * b.d - b.n * a.d, a.d * b.d)

\* a - b on doubles
Sub(a, b) == Eval2(ToNumber(a), ToNumber(b), SubNumbers)

LtNumbers(a, b) ==
  IF a.t = "NaN" \/ b.t = "NaN" THEN FALSE
  ELSE IF a.t = "inf" \/ b.t = "-inf" THEN FALSE
  ELSE IF a.t = "-inf" \/ b.t = "inf" THEN TRUE
  ELSE a.n * b.d < b.n * a.d

\* a < b: false as soon as one side is NaN
Lt(a, b) == Eval2(ToNumber(a), ToNumber(b), LtNumbers)

Gt(a, b) == Lt(b, a)

LeNumbers(a, b) == IF a.t = "NaN" \/ b.t = "NaN" THEN FALSE ELSE ~LtNumbers(b, a)

\* a <= b
Le(a, b) == Eval2(ToNumber(a), ToNumber(b), LeNumbers)

\* x === null alone: undefined and NaN are not recognised as missing
IsMissing_NullOnly(x) == x.t = "null"

\* x === null || x === undefined || isNaN(x)
IsMissing(x) == x.t = "null" \/ x.t = "undefined" \/ ToNumber(x).t = "NaN"

\* Number.isInteger(x)
IsInteger(x) == x.t = "-0" \/ (x.t = "num" /\ x.d = 1)

\* !x
Falsy(x) == x.t \in {"null", "undefined", "NaN", "-0"} \/ (x.t = "num" /\ x.n = 0)

\* x.toLocaleString() raises a TypeError on null and undefined
LocaleStringThrows(x) == x.t \in {"null", "undefined"}

(***************************************************************************)
(* Static configuration                                                    *)
(***************************************************************************)
VALIDATION_RANGES ==
  [developerCount          |-> [min |-> Num(1),     max |-> Num(50000)],
   annualCostPerDeveloper  |-> [min |-> Num(50000), max |-> Num(300000)],
   ctsSwImprovementPercent |-> [min |-> Rat(1, 10), max |-> Num(50)],
   solutionCost            |-> [min |-> Num(1000),  max |-> Num(100000000)],
   revenuePercentage       |-> [min |-> Num(0),     max |-> Num(100)]]

\* a message: its template text and the values interpolated into it
Msg(text, args) == [text |-> text, args |-> args]

\* the validators' null result (no error)
NoError == Msg("", <<>>)

(***************************************************************************)
(* InputValidator: per-field validators                                    *)
(***************************************************************************)
validateDeveloperCount(count) ==
  IF IsMissing(count)
  THEN Msg("Developer count is required and must be a number", <<>>)
  ELSE IF ~IsInteger(count)
  THEN Msg("Developer count must be a whole number (no decimals)", <<>>)
  ELSE IF Lt(count, VALIDATION_RANGES.developerCount.min)
  THEN Msg("Developer count must be at least 1", <<>>)
  ELSE IF Gt(count, VALIDATION_RANGES.developerCount.max)
  THEN Msg("Developer count cannot exceed 50,000 (consider breaking into smaller teams)", <<>>)
  ELSE NoError

\* mutant: the minimum is tested before the sign
validateAnnualCostPerDeveloper_MinFirst(cost) ==
  IF IsMissing(cost)
  THEN Msg("Annual cost per developer is required and must be a number", <<>>)
  ELSE IF Lt(cost, VALIDATION_RANGES.annualCostPerDeveloper.min)
  THEN Msg("Annual cost per developer must be at least $50,000 (includes salary, benefits, and tooling)", <<>>)
  ELSE IF Le(cost, Zero)
  THEN Msg("Annual cost per developer must be greater than zero", <<>>)
  ELSE IF Gt(cost, VALIDATION_RANGES.annualCostPerDeveloper.max)
  THEN Msg("Annual cost per developer cannot exceed $300,000 (AWS example: $130K)", <<>>)
  ELSE NoError

validateAnnualCostPerDeveloper(cost) ==
  IF IsMissing(cost)
  THEN Msg("Annual cost per developer is required and must be a number", <<>>)
  ELSE IF Le(cost, Zero)
  THEN Msg("Annual cost per developer must be greater than zero", <<>>)
  ELSE IF Lt(cost, VALIDATION_RANGES.annualCostPerDeveloper.min)
  THEN Msg("Annual cost per developer must be at least $50,000 (includes salary, benefits, and tooling)", <<>>)
  ELSE IF Gt(cost, VALIDATION_RANGES.annualCostPerDeveloper.max)
  THEN Msg("Annual cost per developer cannot exceed $300,000 (AWS example: $130K)", <<>>)
  ELSE NoError

validateCtsSwImprovement(improvement) ==
  IF IsMissing(improvement)
  THEN Msg("CTS-SW improvement percentage is required and must be a number", <<>>)
  ELSE IF Le(improvement, Zero)
  THEN Msg("CTS-SW improvement percentage must be greater than zero", <<>>)
  ELSE IF Lt(improvement, VALIDATION_RANGES.ctsSwImprovementPercent.min)
  THEN Msg("CTS-SW improvement must be at least 0.1%", <<>>)
  ELSE IF Gt(improvement, VALIDATION_RANGES.ctsSwImprovementPercent.max)
  THEN Msg("CTS-SW improvement cannot exceed 50% (be realistic about achievable gains)", <<>>)
  ELSE NoError

\* mutant: the maximum itself is rejected (>= instead of >)
validateSolutionCost_ExclusiveMax(cost) ==
  IF IsMissing(cost)
  THEN Msg("Solution cost is required and must be a number", <<>>)
  ELSE IF Le(cost, Zero)
  THEN Msg("Solution cost must be greater than zero", <<>>)
  ELSE IF Lt(cost, VALIDATION_RANGES.solutionCost.min)
  THEN Msg("Solution cost must be at least $1,000", <<>>)
  ELSE IF Le(VALIDATION_RANGES.solutionCost.max, cost)
  THEN Msg("Solution cost cannot exceed $100,000,000", <<>>)
  ELSE NoError

validateSolutionCost(cost) ==
  IF IsMissing(cost)
  THEN Msg("Solution cost is required and must be a number", <<>>)
  ELSE IF Le(cost, Zero)
  THEN Msg("Solution cost must be greater than zero", <<>>)
  ELSE IF Lt(cost, VALIDATION_RANGES.solutionCost.min)
  THEN Msg("Solution cost must be at least $1,000", <<>>)
  ELSE IF Gt(cost, VALIDATION_RANGES.solutionCost.max)
  THEN Msg("Solution cost cannot exceed $100,000,000", <<>>)
  ELSE NoError

\* mutant: null is not tested, only undefined and NaN
validateRevenuePercentage_NoNullCheck(percentage) ==
  IF percentage.t = "undefined" \/ ToNumber(percentage).t = "NaN"
  THEN Msg("Revenue percentage is required for tech companies", <<>>)
  ELSE IF Lt(percentage, VALIDATION_RANGES.revenuePercentage.min)
  THEN Msg("Revenue percentage must be at least 0%", <<>>)
  ELSE IF Gt(percentage, VALIDATION_RANGES.revenuePercentage.max)
  THEN Msg("Revenue percentage cannot exceed 100%", <<>>)
  ELSE NoError

validateRevenuePercentage(percentage) ==
  IF IsMissing(percentage)
  THEN Msg("Revenue percentage is required for tech companies", <<>>)
  ELSE IF Lt(percentage, VALIDATION_RANGES.revenuePercentage.min)
  THEN Msg("Revenue percentage must be at least 0%", <<>>)
  ELSE IF Gt(percentage, VALIDATION_RANGES.revenuePercentage.max)
  THEN Msg("Revenue percentage cannot exceed 100%", <<>>)
  ELSE NoError

(***************************************************************************)
(* ValidationErrors: a JavaScript object, i.e. the sequence of its         *)
(* [key, msg] entries in insertion order                                   *)
(***************************************************************************)
Keys(errors) == {errors[i].key : i \in DOMAIN errors}

HasKey(errors, k) == k \in Keys(errors)

Get(errors, k) == errors[CHOOSE i \in DOMAIN errors : errors[i].key = k].msg

\* Object.values(errors)
Values(errors) == [i \in DOMAIN errors |-> errors[i].msg]

\* mutant: a key already present keeps its first message
PutEntry_KeepFirst(errors, entry) ==
  IF HasKey(errors, entry.key) THEN errors ELSE Append(errors, entry)

PutEntry(errors, entry) ==
  IF HasKey(errors, entry.key)
  THEN [i \in DOMAIN errors |-> IF errors[i].key = entry.key THEN entry ELSE errors[i]]
  ELSE Append(errors, entry)

\* errors[k] = m: a key already present keeps its position
Put(errors, k, m) == Eval2(errors, [key |-> k, msg |-> m], PutEntry)

PutEntryIfError(errors, entry) ==
  IF entry.msg = NoError THEN errors ELSE PutEntry(errors, entry)

\* if (error) errors[k] = error
PutIfError(errors, k, m) == Eval2(errors, [key |-> k, msg |-> m], PutEntryIfError)

RECURSIVE AssignEntries(_, _)
\* mutant: the entries of source are not copied
AssignEntries_Discard(target, source) == target

\* mutant: only the keys absent from target are copied
AssignEntries_KeepTarget(target, source) ==
  target \o SelectSeq(source, LAMBDA e : ~HasKey(target, e.key))

AssignEntries(target, source) ==
  IF source = <<>> THEN target
  ELSE AssignEntries(PutEntry(target, Head(source)), Tail(source))

\* Object.assign(target, source)
Assign(target, source) == Eval2(target, source, AssignEntries)

Returned(v) == [kind |-> "returned", value |-> v]

Threw(e) == [kind |-> "threw", error |-> e]

TypeErrorNull ==
  [type |-> "TypeError", prefix |-> "Cannot read properties of null or undefined (reading 'toLocaleString')", parts |-> <<>>]

(***************************************************************************)
(* InputValidator: cross-field rules, validateScenario, validateField      *)
(***************************************************************************)
\* mutant: the small-team rule also fires for a team of exactly 10
validateCrossFieldConstraints_TeamInclusive(s) ==
  LET totalDeveloperCost == Mul(s.developerCount, s.annualCostPerDeveloper)
      costRatio == Div(s.solutionCost, totalDeveloperCost)
      high  == Gt(costRatio, Rat(1, 2))
      small == Lt(costRatio, Rat(1, 200)) /\ Gt(s.ctsSwImprovementPercent, Num(15))
      team  == Le(s.developerCount, Num(10)) /\ Gt(s.solutionCost, Num(500000))
      e1 == IF high
            THEN <<[key |-> "solutionCost",
                    msg |-> Msg("Solution cost ($1) seems high relative to total developer cost ($2). Consider if this investment is realistic.",
                                <<s.solutionCost, totalDeveloperCost>>)]>>
            ELSE <<>>
      e2 == IF small
            THEN Put(e1, "ctsSwImprovementPercent",
                     Msg("$1% improvement may be unrealistic for a relatively small investment ($2)",
                         <<s.ctsSwImprovementPercent, s.solutionCost>>))
            ELSE e1
      e3 == IF team
            THEN Put(e2, "general",
                     Msg("High solution cost for a small team. Consider if this investment makes sense for $1 developers.",
                         <<s.developerCount>>))
            ELSE e2
  IN  IF (high \/ small) /\ LocaleStringThrows(s.solutionCost)
      THEN Threw(TypeErrorNull)
      ELSE Returned(e3)

\* mutant: the small-investment rule tests costRatio > 0.005
validateCrossFieldConstraints_SmallFlipped(s) ==
  LET totalDeveloperCost == Mul(s.developerCount, s.annualCostPerDeveloper)
      costRatio == Div(s.solutionCost, totalDeveloperCost)
      high  == Gt(costRatio, Rat(1, 2))
      small == Gt(costRatio, Rat(1, 200)) /\ Gt(s.ctsSwImprovementPercent, Num(15))
      team  == Lt(s.developerCount, Num(10)) /\ Gt(s.solutionCost, Num(500000))
      e1 == IF high
            THEN <<[key |-> "solutionCost",
                    msg |-> Msg("Solution cost ($1) seems high relative to total developer cost ($2). Consider if this investment is realistic.",
                                <<s.solutionCost, totalDeveloperCost>>)]>>
            ELSE <<>>
      e2 == IF small
            THEN Put(e1, "ctsSwImprovementPercent",
                     Msg("$1% improvement may be unrealistic for a relatively small investment ($2)",
                         <<s.ctsSwImprovementPercent, s.solutionCost>>))
            ELSE e1
      e3 == IF team
            THEN Put(e2, "general",
                     Msg("High solution cost for a small team. Consider if this investment makes sense for $1 developers.",
                         <<s.developerCount>>))
            ELSE e2
  IN  IF (high \/ small) /\ LocaleStringThrows(s.solutionCost)
      THEN Threw(TypeErrorNull)
      ELSE Returned(e3)

\* mutant: a solution cost above half the total developer cost is accepted
validateCrossFieldConstraints_NoHighRule(s) ==
  LET totalDeveloperCost == Mul(s.developerCount, s.annualCostPerDeveloper)
      costRatio == Div(s.solutionCost, totalDeveloperCost)
      small == Lt(costRatio, Rat(1, 200)) /\ Gt(s.ctsSwImprovementPercent, Num(15))
      team  == Lt(s.developerCount, Num(10)) /\ Gt(s.solutionCost, Num(500000))
      e2 == IF small
            THEN <<[key |-> "ctsSwImprovementPercent",
                    msg |-> Msg("$1% improvement may be unrealistic for a relatively small investment ($2)",
                                <<s.ctsSwImprovementPercent, s.solutionCost>>)]>>
            ELSE <<>>
      e3 == IF team
            THEN Put(e2, "general",
                     Msg("High solution cost for a small team. Consider if this investment makes sense for $1 developers.",
                         <<s.developerCount>>))
            ELSE e2
  IN  IF small /\ LocaleStringThrows(s.solutionCost)
      THEN Threw(TypeErrorNull)
      ELSE Returned(e3)

\* The three rules run in order; building a message calls toLocaleString on
\* scenario.solutionCost, which raises a TypeError when that field is null
\* or undefined.
validateCrossFieldConstraints(s) ==
  LET totalDeveloperCost == Mul(s.developerCount, s.annualCostPerDeveloper)
      costRatio == Div(s.solutionCost, totalDeveloperCost)
      high  == Gt(costRatio, Rat(1, 2))
      small == Lt(costRatio, Rat(1, 200)) /\ Gt(s.ctsSwImprovementPercent, Num(15))
      team  == Lt(s.developerCount, Num(10)) /\ Gt(s.solutionCost, Num(500000))
      e1 == IF high
            THEN <<[key |-> "solutionCost",
                    msg |-> Msg("Solution cost ($1) seems high relative to total developer cost ($2). Consider if this investment is realistic.",
                                <<s.solutionCost, totalDeveloperCost>>)]>>
            ELSE <<>>
      e2 == IF small
            THEN Put(e1, "ctsSwImprovementPercent",
                     Msg("$1% improvement may be unrealistic for a relatively small investment ($2)",
                         <<s.ctsSwImprovementPercent, s.solutionCost>>))
            ELSE e1
      e3 == IF team
            THEN Put(e2, "general",
                     Msg("High solution cost for a small team. Consider if this investment makes sense for $1 developers.",
                         <<s.developerCount>>))
            ELSE e2
  IN  IF (high \/ small) /\ LocaleStringThrows(s.solutionCost)
      THEN Threw(TypeErrorNull)
      ELSE Returned(e3)

\* mutant: the business type is compared with a literal it never equals
isTechScenario_WrongLiteral(s) == s.businessType = "technology"

\* mutant: every business type is treated as tech
isTechScenario_AnyType(s) == s.businessType \in {"traditional", "tech"}

\* scenario.businessType === 'tech'
isTechScenario(s) == s.businessType = "tech"

validateScenario(s) ==
  LET e1 == PutIfError(<<>>, "developerCount", validateDeveloperCount(s.developerCount))
      e2 == PutIfError(e1, "annualCostPerDeveloper",
                       validateAnnualCostPerDeveloper(s.annualCostPerDeveloper))
      e3 == PutIfError(e2, "ctsSwImprovementPercent",
                       validateCtsSwImprovement(s.ctsSwImprovementPercent))
      e4 == PutIfError(e3, "solutionCost", validateSolutionCost(s.solutionCost))
      e5 == IF isTechScenario(s)
            THEN PutIfError(e4, "revenuePercentage",
                            validateRevenuePercentage(s.revenuePercentage))
            ELSE e4
  IN  Eval2(e5, validateCrossFieldConstraints(s),
            LAMBDA errors, crossFieldErrors :
              IF crossFieldErrors.kind = "threw"
              THEN crossFieldErrors
              ELSE Returned(AssignEntries(errors, crossFieldErrors.value)))

\* mutant: revenuePercentage is validated whatever the businessType argument
validateField_RevenueAlways(fieldName, value, businessType) ==
  CASE fieldName = "developerCount" -> validateDeveloperCount(value)
    [] fieldName = "annualCostPerDeveloper" -> validateAnnualCostPerDeveloper(value)
    [] fieldName = "ctsSwImprovementPercent" -> validateCtsSwImprovement(value)
    [] fieldName = "solutionCost" -> validateSolutionCost(value)
    [] fieldName = "revenuePercentage" -> validateRevenuePercentage(value)
    [] OTHER -> NoError

validateField(fieldName, value, businessType) ==
  CASE fieldName = "developerCount" -> validateDeveloperCount(value)
    [] fieldName = "annualCostPerDeveloper" -> validateAnnualCostPerDeveloper(value)
    [] fieldName = "ctsSwImprovementPercent" -> validateCtsSwImprovement(value)
    [] fieldName = "solutionCost" -> validateSolutionCost(value)
    [] fieldName = "revenuePercentage" ->
         IF businessType = "tech" THEN validateRevenuePercentage(value) ELSE NoError
    [] OTHER -> NoError

(***************************************************************************)
(* BusinessModelCalculator                                                 *)
(***************************************************************************)
\* mutant: only the first message is reported
ValidationFailed_FirstOnly(errors) ==
  [type |-> "Error", prefix |-> "Validation failed: ", parts |-> <<errors[1].msg>>]

\* new Error(`Validation failed: ${Object.values(errors).join(', ')}`)
ValidationFailed(errors) ==
  [type |-> "Error", prefix |-> "Validation failed: ", parts |-> Values(errors)]

RevenueRequired ==
  [type |-> "Error", prefix |-> "Revenue percentage is required for tech company calculations", parts |-> <<>>]

\* mutant: a Scenario without a name is rejected
validateInputs_RequireName(s) ==
  IF s.name = ""
  THEN Returned(<<[key |-> "name", msg |-> Msg("Scenario name is required", <<>>)]>>)
  ELSE validateScenario(s)

validateInputs(s) == validateScenario(s)

\* const baselineProfitMargin = 0.10
baselineProfitMargin == Rat(10, 100)

CalcStep(n, description, formula, calculation, result) ==
  [step |-> n, description |-> description, formula |-> formula,
   calculation |-> calculation, result |-> result]

\* mutant: a single error does not stop the calculation
hasErrors_MoreThanOne(validationErrors) == Len(validationErrors) > 1

\* Object.keys(validationErrors).length > 0
hasErrors(validationErrors) == Len(validationErrors) > 0

\* mutant: roiPercentage = roiMultiple * 100, the "- 1" forgotten
traditionalMetrics_NoMinusOne(s) ==
  LET totalDeveloperCost == Mul(s.developerCount, s.annualCostPerDeveloper)
      costAvoidance == Mul(totalDeveloperCost, Div(s.ctsSwImprovementPercent, Num(100)))
      roiMultiple == Div(costAvoidance, s.solutionCost)
  IN  [totalDeveloperCost |-> totalDeveloperCost,
       costAvoidance |-> costAvoidance,
       roiMultiple |-> roiMultiple,
       roiPercentage |-> Mul(roiMultiple, Num(100))]

\* the four metrics of the traditional pipeline
traditionalMetrics(s) ==
  LET totalDeveloperCost == Mul(s.developerCount, s.annualCostPerDeveloper)
      costAvoidance == Mul(totalDeveloperCost, Div(s.ctsSwImprovementPercent, Num(100)))
      roiMultiple == Div(costAvoidance, s.solutionCost)
      roiPercentage == Mul(Sub(roiMultiple, Num(1)), Num(100))
  IN  [totalDeveloperCost |-> totalDeveloperCost,
       costAvoidance |-> costAvoidance,
       roiMultiple |-> roiMultiple,
       roiPercentage |-> roiPercentage]

\* the calculationSteps of the traditional pipeline
traditionalSteps(s, m) ==
  << CalcStep(1, "Calculate Total Developer Cost",
              "Developer Count x Annual Cost per Developer",
              <<s.developerCount, s.annualCostPerDeveloper>>, m.totalDeveloperCost),
     CalcStep(2, "Calculate Cost Avoidance",
              "Total Developer Cost x CTS-SW Improvement %",
              <<m.totalDeveloperCost, s.ctsSwImprovementPercent>>, m.costAvoidance),
     CalcStep(3, "Calculate ROI Multiple",
              "Cost Avoidance / Solution Cost",
              <<m.costAvoidance, s.solutionCost>>, m.roiMultiple) >>

calculateTraditionalBusiness(s) ==
  Eval2(validateInputs(s), traditionalMetrics(s),
        LAMBDA validationErrors, m :
          IF validationErrors.kind = "threw" THEN validationErrors
          ELSE IF hasErrors(validationErrors.value)
          THEN Threw(ValidationFailed(validationErrors.value))
          ELSE IF \/ LocaleStringThrows(s.developerCount)
                  \/ LocaleStringThrows(s.annualCostPerDeveloper)
                  \/ LocaleStringThrows(s.solutionCost)
          THEN Threw(TypeErrorNull)
          ELSE Returned([scenarioId |-> s.id,
                         totalDeveloperCost |-> m.totalDeveloperCost,
                         costAvoidance |-> m.costAvoidance,
                         roiMultiple |-> m.roiMultiple,
                         roiPercentage |-> m.roiPercentage,
                         supportingMetrics |-> [deploymentsPerBuilder |-> Zero,
                                                interventionsReduction |-> Zero,
                                                incidentReduction |-> Zero],
                         calculationSteps |-> traditionalSteps(s, m)]))

\* mutant: the profit boost is taken relative to the whole developer cost
techMetrics_NoBaselineMargin(s) ==
  LET totalDeveloperCost == Mul(s.developerCount, s.annualCostPerDeveloper)
      costAvoidance == Mul(totalDeveloperCost, Div(s.ctsSwImprovementPercent, Num(100)))
      grossMarginImprovement == Mul(costAvoidance, Div(s.revenuePercentage, Num(100)))
      estimatedCurrentProfit == totalDeveloperCost
  IN  [costAvoidance |-> costAvoidance,
       grossMarginImprovement |-> grossMarginImprovement,
       profitImpact |-> grossMarginImprovement,
       estimatedCurrentProfit |-> estimatedCurrentProfit,
       profitBoostPercentage |->
         IF Gt(estimatedCurrentProfit, Zero)
         THEN Mul(Div(grossMarginImprovement, estimatedCurrentProfit), Num(100))
         ELSE Zero]

\* mutant: the profit boost is taken relative to the solution cost
techMetrics_BoostPerSolutionCost(s) ==
  LET totalDeveloperCost == Mul(s.developerCount, s.annualCostPerDeveloper)
      costAvoidance == Mul(totalDeveloperCost, Div(s.ctsSwImprovementPercent, Num(100)))
      grossMarginImprovement == Mul(costAvoidance, Div(s.revenuePercentage, Num(100)))
      estimatedCurrentProfit == Mul(totalDeveloperCost, baselineProfitMargin)
  IN  [costAvoidance |-> costAvoidance,
       grossMarginImprovement |-> grossMarginImprovement,
       profitImpact |-> grossMarginImprovement,
       estimatedCurrentProfit |-> estimatedCurrentProfit,
       profitBoostPercentage |->
         IF Gt(s.solutionCost, Zero)
         THEN Mul(Div(grossMarginImprovement, s.solutionCost), Num(100))
         ELSE Zero]

\* the tech-company specific calculations
techMetrics(s) ==
  LET totalDeveloperCost == Mul(s.developerCount, s.annualCostPerDeveloper)
      costAvoidance == Mul(totalDeveloperCost, Div(s.ctsSwImprovementPercent, Num(100)))
      grossMarginImprovement == Mul(costAvoidance, Div(s.revenuePercentage, Num(100)))
      profitImpact == grossMarginImprovement
      estimatedCurrentProfit == Mul(totalDeveloperCost, baselineProfitMargin)
      profitBoostPercentage ==
        IF Gt(estimatedCurrentProfit, Zero)
        THEN Mul(Div(profitImpact, estimatedCurrentProfit), Num(100))
        ELSE Zero
  IN  [costAvoidance |-> costAvoidance,
       grossMarginImprovement |-> grossMarginImprovement,
       profitImpact |-> profitImpact,
       estimatedCurrentProfit |-> estimatedCurrentProfit,
       profitBoostPercentage |-> profitBoostPercentage]

\* mutant: profitBoostPercentage is left out of the returned object
techResults_NoProfitBoost(basicResults, m, techCalculationSteps) ==
  [grossMarginImprovement |-> m.grossMarginImprovement,
   profitImpact |-> m.profitImpact,
   calculationSteps |-> techCalculationSteps] @@ basicResults

\* { ...basicResults, grossMarginImprovement, profitImpact,
\*   profitBoostPercentage, calculationSteps: techCalculationSteps }
techResults(basicResults, m, techCalculationSteps) ==
  [grossMarginImprovement |-> m.grossMarginImprovement,
   profitImpact |-> m.profitImpact,
   profitBoostPercentage |-> m.profitBoostPercentage,
   calculationSteps |-> techCalculationSteps] @@ basicResults

\* mutant: steps 4 to 6 replace the steps of the traditional pipeline
techSteps_DropBasic(s, basicSteps, m) ==
  << CalcStep(4, "Calculate Gross Margin Improvement (Tech Company)",
              "Cost Avoidance x Revenue from Software Development %",
              <<m.costAvoidance, s.revenuePercentage>>, m.grossMarginImprovement),
     CalcStep(5, "Calculate Profit Impact",
              "Gross Margin Improvement (flows to profit)",
              <<m.grossMarginImprovement>>, m.profitImpact),
     CalcStep(6, "Calculate Profit Boost Percentage",
              "Profit Impact / Estimated Current Profit x 100",
              <<m.profitImpact, m.estimatedCurrentProfit>>, m.profitBoostPercentage) >>

\* steps 4 to 6, appended to the steps of the traditional pipeline
techSteps(s, basicSteps, m) ==
  basicSteps \o
  << CalcStep(4, "Calculate Gross Margin Improvement (Tech Company)",
              "Cost Avoidance x Revenue from Software Development %",
              <<m.costAvoidance, s.revenuePercentage>>, m.grossMarginImprovement),
     CalcStep(5, "Calculate Profit Impact",
              "Gross Margin Improvement (flows to profit)",
              <<m.grossMarginImprovement>>, m.profitImpact),
     CalcStep(6, "Calculate Profit Boost Percentage",
              "Profit Impact / Estimated Current Profit x 100",
              <<m.profitImpact, m.estimatedCurrentProfit>>, m.profitBoostPercentage) >>

calculateTechCompany(s) ==
  Eval3(validateInputs(s), calculateTraditionalBusiness(s), techMetrics(s),
        LAMBDA validationErrors, basicResults, m :
          IF validationErrors.kind = "threw" THEN validationErrors
          ELSE IF hasErrors(validationErrors.value)
          THEN Threw(ValidationFailed(validationErrors.value))
          ELSE IF Falsy(s.revenuePercentage) THEN Threw(RevenueRequired)
          ELSE IF basicResults.kind = "threw" THEN basicResults
          ELSE Returned(techResults(basicResults.value, m,
                          techSteps(s, basicResults.value.calculationSteps, m))))

(***************************************************************************)
(* Inputs                                                                  *)
(***************************************************************************)
\* number of successive calls made on one Scenario
MaxCalls == 2

BusinessTypes == {"traditional", "tech"}

DeveloperCounts ==
  {Null, Num(-5), Num(0), Num(9), Num(10), Num(400), Num(1000)}

AnnualCosts == {Null, Num(100000), Num(130000), Num(150000)}

Improvements == {Undefined, Num(0), Num(15), Num(20), Num(60)}

SolutionCosts ==
  {Null, Num(500), Num(1000), Num(500000), Num(600000), Num(1000000), Num(2000000)}

RevenuePercentages == {Undefined, Null, NaN, Num(0), Num(60), Num(100), Num(101)}

Scenarios ==
  [id : {"scenario-1"},
   businessType : BusinessTypes,
   developerCount : DeveloperCounts,
   annualCostPerDeveloper : AnnualCosts,
   ctsSwImprovementPercent : Improvements,
   solutionCost : SolutionCosts,
   revenuePercentage : RevenuePercentages]

\* values handed to a single-field validator
FieldValues ==
  {Null, Undefined, NaN, Infinity, NegInfinity, NegZero,
   Num(-1), Num(0), Num(1), Rat(21, 2), Rat(9, 100), Rat(1, 10), Num(15),
   Num(50), Rat(5001, 100), Num(60), Num(100), Num(101), Num(999), Num(1000),
   Num(49999), Num(50000), Num(50001), Num(130000), Num(300000), Num(300001),
   Num(100000000), Num(100000001)}

FieldNames ==
  {"developerCount", "annualCostPerDeveloper", "ctsSwImprovementPercent",
   "solutionCost", "revenuePercentage", "name"}

\* the optional businessType argument of validateField
BusinessTypeArgs == BusinessTypes \cup {"omitted"}

\* AWS_BENCHMARKS.BANK_EXAMPLE as a traditional Scenario
BankExample ==
  [id |-> "scenario-1", businessType |-> "traditional",
   developerCount |-> Num(1000), annualCostPerDeveloper |-> Num(130000),
   ctsSwImprovementPercent |-> Num(15), solutionCost |-> Num(2000000),
   revenuePercentage |-> Undefined]

\* AWS_BENCHMARKS.TECH_EXAMPLE as a tech Scenario
TechExample ==
  [id |-> "scenario-1", businessType |-> "tech",
   developerCount |-> Num(400), annualCostPerDeveloper |-> Num(150000),
   ctsSwImprovementPercent |-> Num(15), solutionCost |-> Num(1000000),
   revenuePercentage |-> Num(60)]

(***************************************************************************)
(* The state machine: a caller holds a Scenario and calls the services     *)
(***************************************************************************)
NoOutcome == [kind |-> "none"]

EntryPoints == {"calculateTraditionalBusiness", "calculateTechCompany"}

\* no entry point has been called yet
NoPrevious == [ep \in EntryPoints |-> NoOutcome]

\* the JavaScript null held by a state variable of object type
NullRef == [kind |-> "null"]

\* the state of CalculatorDashboard at mount: no results, no error, no
\* validation errors, and the effect that runs calculateResults still to run
NoDashboard ==
  [calculationResults |-> NullRef, calculationError |-> NullRef,
   validationErrors |-> <<>>, effectPending |-> TRUE]

\* local storage without the key 'roi-calculator-scenarios'; generateId and
\* new Date() are counters
EmptyStore == [scenarios |-> <<>>, nextId |-> 1, now |-> 1]

Init ==
  /\ scenario \in Scenarios
  /\ lastCall = "none"
  /\ callArgs = <<>>
  /\ outcome = NoOutcome
  /\ calls = 0
  /\ previous = NoPrevious
  /\ ranges = VALIDATION_RANGES
  /\ dashboard = NoDashboard
  /\ store = EmptyStore

ValidateScenario ==
  /\ calls < MaxCalls
  /\ lastCall' = "validateScenario"
  /\ outcome' = validateScenario(scenario)
  /\ calls' = calls + 1
  /\ UNCHANGED <<scenario, callArgs, previous, ranges, dashboard, store>>

ValidateCrossFieldConstraints ==
  /\ calls < MaxCalls
  /\ lastCall' = "validateCrossFieldConstraints"
  /\ outcome' = validateCrossFieldConstraints(scenario)
  /\ calls' = calls + 1
  /\ UNCHANGED <<scenario, callArgs, previous, ranges, dashboard, store>>

CalculateTraditionalBusiness ==
  /\ calls < MaxCalls
  /\ lastCall' = "calculateTraditionalBusiness"
  /\ outcome' = calculateTraditionalBusiness(scenario)
  /\ calls' = calls + 1
  /\ UNCHANGED <<scenario, callArgs, previous, ranges, dashboard, store>>

\* mutant: a missing revenuePercentage is filled in on the caller's Scenario
CalculateTechCompany_DefaultsRevenue ==
  /\ calls < MaxCalls
  /\ lastCall' = "calculateTechCompany"
  /\ outcome' = calculateTechCompany(scenario)
  /\ calls' = calls + 1
  /\ scenario' = IF IsMissing(scenario.revenuePercentage)
                 THEN [scenario EXCEPT !.revenuePercentage = Zero]
                 ELSE scenario
  /\ UNCHANGED <<callArgs, previous, ranges, dashboard, store>>

CalculateTechCompany ==
  /\ calls < MaxCalls
  /\ lastCall' = "calculateTechCompany"
  /\ outcome' = calculateTechCompany(scenario)
  /\ calls' = calls + 1
  /\ UNCHANGED <<scenario, callArgs, previous, ranges, dashboard, store>>

Next ==
  \/ ValidateScenario
  \/ ValidateCrossFieldConstraints
  \/ CalculateTraditionalBusiness
  \/ CalculateTechCompany

Spec == Init /\ [][Next]_vars

(***************************************************************************)
(* The single-field validators, applied to one value at a time             *)
(***************************************************************************)
FieldInit ==
  /\ scenario = BankExample
  /\ lastCall = "none"
  /\ callArgs = <<>>
  /\ outcome = NoOutcome
  /\ calls = 0
  /\ previous = NoPrevious
  /\ ranges = VALIDATION_RANGES
  /\ dashboard = NoDashboard
  /\ store = EmptyStore

ValidateDeveloperCount ==
  \E value \in FieldValues :
    /\ lastCall' = "validateDeveloperCount"
    /\ callArgs' = <<value>>
    /\ outcome' = Returned(validateDeveloperCount(value))
    /\ calls' = 1
    /\ UNCHANGED <<scenario, previous, ranges, dashboard, store>>

ValidateAnnualCostPerDeveloper ==
  \E value \in FieldValues :
    /\ lastCall' = "validateAnnualCostPerDeveloper"
    /\ callArgs' = <<value>>
    /\ outcome' = Returned(validateAnnualCostPerDeveloper(value))
    /\ calls' = 1
    /\ UNCHANGED <<scenario, previous, ranges, dashboard, store>>

ValidateCtsSwImprovement ==
  \E value \in FieldValues :
    /\ lastCall' = "validateCtsSwImprovement"
    /\ callArgs' = <<value>>
    /\ outcome' = Returned(validateCtsSwImprovement(value))
    /\ calls' = 1
    /\ UNCHANGED <<scenario, previous, ranges, dashboard, store>>

ValidateSolutionCost ==
  \E value \in FieldValues :
    /\ lastCall' = "validateSolutionCost"
    /\ callArgs' = <<value>>
    /\ outcome' = Returned(validateSolutionCost(value))
    /\ calls' = 1
    /\ UNCHANGED <<scenario, previous, ranges, dashboard, store>>

ValidateRevenuePercentage ==
  \E value \in FieldValues :
    /\ lastCall' = "validateRevenuePercentage"
    /\ callArgs' = <<value>>
    /\ outcome' = Returned(validateRevenuePercentage(value))
    /\ calls' = 1
    /\ UNCHANGED <<scenario, previous, ranges, dashboard, store>>

ValidateField ==
  \E fieldName \in FieldNames, value \in FieldValues, businessType \in BusinessTypeArgs :
    /\ lastCall' = "validateField"
    /\ callArgs' = <<fieldName, value, businessType>>
    /\ outcome' = Returned(validateField(fieldName, value, businessType))
    /\ calls' = 1
    /\ UNCHANGED <<scenario, previous, ranges, dashboard, store>>

FieldNext ==
  \/ ValidateDeveloperCount
  \/ ValidateAnnualCostPerDeveloper
  \/ ValidateCtsSwImprovement
  \/ ValidateSolutionCost
  \/ ValidateRevenuePercentage
  \/ ValidateField

FieldSpec == FieldInit /\ [][FieldNext]_vars

(***************************************************************************)
(* Properties                                                              *)
(***************************************************************************)
CalledCalculator == lastCall \in {"calculateTraditionalBusiness", "calculateTechCompany"}

ReturnedFrom(name) == lastCall = name /\ outcome.kind = "returned"

\* the numeric inputs of the scenario are those of s
SameInputs(s) ==
  /\ scenario.developerCount = s.developerCount
  /\ scenario.annualCostPerDeveloper = s.annualCostPerDeveloper
  /\ scenario.ctsSwImprovementPercent = s.ctsSwImprovementPercent
  /\ scenario.solutionCost = s.solutionCost

\* C1: whenever calculateTraditionalBusiness returns a result,
\* totalDeveloperCost = developerCount * annualCostPerDeveloper,
\* costAvoidance = totalDeveloperCost * ctsSwImprovementPercent / 100,
\* roiMultiple = costAvoidance / solutionCost and
\* roiPercentage = (roiMultiple - 1) * 100; on the bank example these are
\* 130000000, 19500000, 9.75 and 875.
C1_TraditionalFormulas ==
  ReturnedFrom("calculateTraditionalBusiness") =>
    LET r == outcome.value
    IN  /\ r.totalDeveloperCost =
             Mul(scenario.developerCount, scenario.annualCostPerDeveloper)
        /\ r.costAvoidance =
             Mul(r.totalDeveloperCost, Div(scenario.ctsSwImprovementPercent, Num(100)))
        /\ r.roiMultiple = Div(r.costAvoidance, scenario.solutionCost)
        /\ r.roiPercentage = Mul(Sub(r.roiMultiple, Num(1)), Num(100))
        /\ SameInputs(BankExample) =>
             /\ r.totalDeveloperCost = Num(130000000)
             /\ r.costAvoidance = Num(19500000)
             /\ r.roiMultiple = Rat(975, 100)
             /\ r.roiPercentage = Num(875)

C1_Witness ==
  /\ ReturnedFrom("calculateTraditionalBusiness")
  /\ SameInputs(BankExample)
  /\ outcome.value.roiMultiple = Rat(39, 4)

C3_InvalidScenarioFails ==
  LET v == validateScenario(scenario)
  IN  (CalledCalculator /\ v.kind = "returned" /\ v.value # <<>>) =>
        /\ outcome.kind = "threw"
        /\ outcome.error.type = "Error"

C3_Witness ==
  /\ lastCall = "calculateTraditionalBusiness"
  /\ scenario.developerCount = Num(0)
  /\ scenario.annualCostPerDeveloper = Num(130000)
  /\ scenario.ctsSwImprovementPercent = Num(15)
  /\ scenario.solutionCost = Num(2000000)
  /\ validateScenario(scenario).kind = "returned"
  /\ validateScenario(scenario).value # <<>>
  /\ outcome.kind = "threw"
  /\ outcome.error.prefix = "Validation failed: "

\* the entry point that matches the Scenario's businessType was called
CalledMatchingEntryPoint ==
  \/ lastCall = "calculateTraditionalBusiness" /\ scenario.businessType = "traditional"
  \/ lastCall = "calculateTechCompany" /\ scenario.businessType = "tech"

\* C4: when validateScenario returns an empty mapping for the Scenario, the
\* entry point matching its businessType returns a CalculationResults,
\* also for tech Scenarios whose revenuePercentage is 0 or 100.
C4_ValidScenarioSucceeds ==
  (CalledMatchingEntryPoint /\ validateScenario(scenario) = Returned(<<>>)) =>
    outcome.kind = "returned"

CalledFieldValidator ==
  lastCall \in {"validateDeveloperCount", "validateAnnualCostPerDeveloper",
                "validateCtsSwImprovement", "validateSolutionCost",
                "validateRevenuePercentage"}

\* the value at a boundary is accepted, the nearest value outside is rejected
BoundaryRule(name, range, eps) ==
  lastCall = name =>
    /\ callArgs[1] \in {range.min, range.max} => outcome.value = NoError
    /\ callArgs[1] \in {Sub(range.min, eps), Sub(range.max, Mul(eps, Num(-1)))} =>
         outcome.value # NoError

\* C5: each of the five per-field validators accepts a value equal to the
\* field's min or max and rejects min - 1 and max + 1 (min - 0.01 and
\* max + 0.01 for ctsSwImprovementPercent).
C5_BoundariesInclusive ==
  /\ BoundaryRule("validateDeveloperCount", VALIDATION_RANGES.developerCount, Num(1))
  /\ BoundaryRule("validateAnnualCostPerDeveloper",
                  VALIDATION_RANGES.annualCostPerDeveloper, Num(1))
  /\ BoundaryRule("validateCtsSwImprovement",
                  VALIDATION_RANGES.ctsSwImprovementPercent, Rat(1, 100))
  /\ BoundaryRule("validateSolutionCost", VALIDATION_RANGES.solutionCost, Num(1))
  /\ BoundaryRule("validateRevenuePercentage",
                  VALIDATION_RANGES.revenuePercentage, Num(1))

C5_Witness ==
  /\ lastCall = "validateSolutionCost"
  /\ callArgs = <<Num(100000000)>>
  /\ outcome.value = NoError

\* C6: every per-field validator returns an error, never null, for null,
\* undefined, NaN, Infinity and -Infinity.
C6_NonNumbersRejected ==
  (CalledFieldValidator
     /\ callArgs[1] \in {Null, Undefined, NaN, Infinity, NegInfinity}) =>
    outcome.value # NoError

C6_Witness ==
  /\ lastCall = "validateDeveloperCount"
  /\ callArgs = <<Infinity>>
  /\ outcome.value = Msg("Developer count must be a whole number (no decimals)", <<>>)

\* C7: validateScenario and validateCrossFieldConstraints never throw: for
\* every Scenario, also with null, undefined, NaN, zero or negative fields,
\* they return an error mapping.
C7_ValidatorNeverThrows ==
  lastCall \in {"validateScenario", "validateCrossFieldConstraints"} =>
    outcome.kind = "returned"

\* revenuePercentage is absent from the Scenario
RevenueAbsent == scenario.revenuePercentage \in {Undefined, Null}

\* every field but revenuePercentage passes its own validator
OtherFieldsValid ==
  /\ validateDeveloperCount(scenario.developerCount) = NoError
  /\ validateAnnualCostPerDeveloper(scenario.annualCostPerDeveloper) = NoError
  /\ validateCtsSwImprovement(scenario.ctsSwImprovementPercent) = NoError
  /\ validateSolutionCost(scenario.solutionCost) = NoError

RevenueRequiredFailure ==
  [type |-> "Error", prefix |-> "Validation failed: ",
   parts |-> <<Msg("Revenue percentage is required for tech companies", <<>>)>>]

\* C8 as stated: calculateTechCompany fails on every tech Scenario without
\* revenuePercentage, and when all other fields are valid the message is
\* 'Validation failed: Revenue percentage is required for tech companies'.
C8_MissingRevenueMessage ==
  (lastCall = "calculateTechCompany" /\ scenario.businessType = "tech" /\ RevenueAbsent) =>
    /\ outcome.kind = "threw"
    /\ OtherFieldsValid => outcome.error = RevenueRequiredFailure

\* C8 amended: calculateTechCompany fails on every tech Scenario without
\* revenuePercentage; when all other fields pass their validators and no
\* cross-field rule fires, the message is exactly
\* 'Validation failed: Revenue percentage is required for tech companies'.
C8_MissingRevenueMessageNoWarning ==
  (lastCall = "calculateTechCompany" /\ scenario.businessType = "tech" /\ RevenueAbsent) =>
    /\ outcome.kind = "threw"
    /\ (OtherFieldsValid /\ validateCrossFieldConstraints(scenario) = Returned(<<>>)) =>
         outcome.error = RevenueRequiredFailure

C8_Witness ==
  /\ lastCall = "calculateTechCompany"
  /\ scenario.businessType = "tech"
  /\ SameInputs(TechExample)
  /\ scenario.revenuePercentage = Undefined
  /\ outcome.kind = "threw"
  /\ outcome.error = RevenueRequiredFailure

TechFields == {"grossMarginImprovement", "profitImpact", "profitBoostPercentage"}

AllTechFieldsPresent == TechFields \subseteq DOMAIN outcome.value

NoTechFieldPresent == TechFields \cap DOMAIN outcome.value = {}

\* C10 as stated: in every CalculationResults returned by either entry
\* point the three tech fields are all present if businessType is tech and
\* all absent if it is traditional, whichever entry point was called.
C10_TechFieldsFollowBusinessType ==
  (CalledCalculator /\ outcome.kind = "returned") =>
    IF scenario.businessType = "tech" THEN AllTechFieldsPresent ELSE NoTechFieldPresent

\* C10 amended: the three tech fields are all present in every result of
\* calculateTechCompany and all absent from every result of
\* calculateTraditionalBusiness, whatever the businessType; they follow the
\* businessType when the entry point called is the one matching it.
C10_TechFieldsFollowEntryPoint ==
  (CalledCalculator /\ outcome.kind = "returned") =>
    /\ IF lastCall = "calculateTechCompany" THEN AllTechFieldsPresent ELSE NoTechFieldPresent
    /\ CalledMatchingEntryPoint =>
         (IF scenario.businessType = "tech" THEN AllTechFieldsPresent ELSE NoTechFieldPresent)

C10_Witness ==
  /\ ReturnedFrom("calculateTechCompany")
  /\ scenario.businessType = "traditional"
  /\ scenario.revenuePercentage = Num(60)
  /\ AllTechFieldsPresent

\* the result fields of the steps, in order
StepResults(steps) == [i \in DOMAIN steps |-> steps[i].result]

\* C11: calculationSteps is an ordered list whose i-th element has step = i;
\* calculateTraditionalBusiness returns exactly 3 steps with results
\* totalDeveloperCost, costAvoidance, roiMultiple; calculateTechCompany
\* returns exactly 6 steps, the first three equal to the traditional steps
\* of the same Scenario and steps 4, 5, 6 with results
\* grossMarginImprovement, profitImpact, profitBoostPercentage.
C11_StepsOrdered ==
  (CalledCalculator /\ outcome.kind = "returned") =>
    LET r == outcome.value
        steps == r.calculationSteps
    IN  /\ \A i \in DOMAIN steps : steps[i].step = i
        /\ lastCall = "calculateTraditionalBusiness" =>
             StepResults(steps) = <<r.totalDeveloperCost, r.costAvoidance, r.roiMultiple>>
        /\ lastCall = "calculateTechCompany" =>
             /\ Len(steps) = 6
             /\ calculateTraditionalBusiness(scenario).kind = "returned"
             /\ SubSeq(steps, 1, 3) =
                  calculateTraditionalBusiness(scenario).value.calculationSteps
             /\ StepResults(SubSeq(steps, 4, 6)) =
                  <<r.grossMarginImprovement, r.profitImpact, r.profitBoostPercentage>>

C11_Witness ==
  /\ ReturnedFrom("calculateTechCompany")
  /\ SameInputs(TechExample)
  /\ scenario.revenuePercentage = Num(60)
  /\ Len(outcome.value.calculationSteps) = 6
  /\ outcome.value.calculationSteps[3].result = Num(9)
  /\ outcome.value.calculationSteps[6].result = Num(90)

\* solutionCost / (developerCount * annualCostPerDeveloper) of the Scenario
CostRatio ==
  Div(scenario.solutionCost, Mul(scenario.developerCount, scenario.annualCostPerDeveloper))

CostRatioHigh == Gt(CostRatio, Rat(1, 2))

SmallInvestment ==
  Lt(CostRatio, Rat(1, 200)) /\ Gt(scenario.ctsSwImprovementPercent, Num(15))

SmallTeam ==
  Lt(scenario.developerCount, Num(10)) /\ Gt(scenario.solutionCost, Num(500000))

\* C12: a mapping returned by validateCrossFieldConstraints has key
\* solutionCost exactly when costRatio > 0.5, key ctsSwImprovementPercent
\* exactly when costRatio < 0.005 and ctsSwImprovementPercent > 15, key
\* general exactly when developerCount < 10 and solutionCost > 500000, and
\* no other key; costRatio = 0.5, costRatio = 0.005,
\* ctsSwImprovementPercent = 15, developerCount = 10 and
\* solutionCost = 500000 do not fire.
C12_CrossFieldRules ==
  ReturnedFrom("validateCrossFieldConstraints") =>
    LET errors == outcome.value
    IN  /\ HasKey(errors, "solutionCost") <=> CostRatioHigh
        /\ HasKey(errors, "ctsSwImprovementPercent") <=> SmallInvestment
        /\ HasKey(errors, "general") <=> SmallTeam
        /\ Keys(errors) \subseteq {"solutionCost", "ctsSwImprovementPercent", "general"}
        /\ CostRatio = Rat(1, 2) => ~HasKey(errors, "solutionCost")
        /\ (CostRatio = Rat(1, 200) \/ scenario.ctsSwImprovementPercent = Num(15)) =>
             ~HasKey(errors, "ctsSwImprovementPercent")
        /\ (scenario.developerCount = Num(10) \/ scenario.solutionCost = Num(500000)) =>
             ~HasKey(errors, "general")

C12_Witness ==
  /\ ReturnedFrom("validateCrossFieldConstraints")
  /\ scenario.developerCount = Num(10)
  /\ scenario.annualCostPerDeveloper = Num(100000)
  /\ scenario.solutionCost = Num(600000)
  /\ scenario.ctsSwImprovementPercent = Num(20)
  /\ Keys(outcome.value) = {"solutionCost"}

CrossFieldKeys == {"solutionCost", "ctsSwImprovementPercent", "general"}

\* C13 as stated: there is a Scenario for which one
\* validateCrossFieldConstraints call returns a mapping with the keys
\* solutionCost, ctsSwImprovementPercent and general at once.
C13_AllThreeCanFire ==
  \E s \in Scenarios :
    /\ s.id = scenario.id
    /\ validateCrossFieldConstraints(s).kind = "returned"
    /\ CrossFieldKeys \subseteq Keys(validateCrossFieldConstraints(s).value)

\* C13 amended: the cost-ratio-high rule and the small-investment rule never
\* fire in the same call (costRatio is not both > 0.5 and < 0.005), so a
\* mapping returned by validateCrossFieldConstraints holds at most two of
\* the three keys; the small-team rule is independent and can fire together
\* with the cost-ratio-high rule.
C13_HighAndSmallExclusive ==
  /\ ~(CostRatioHigh /\ SmallInvestment)
  /\ ReturnedFrom("validateCrossFieldConstraints") =>
       /\ ~({"solutionCost", "ctsSwImprovementPercent"} \subseteq Keys(outcome.value))
       /\ Cardinality(Keys(outcome.value)) <= 2
       /\ (CostRatioHigh /\ SmallTeam) => Keys(outcome.value) = {"solutionCost", "general"}

C13_Witness ==
  /\ ReturnedFrom("validateCrossFieldConstraints")
  /\ scenario.developerCount = Num(9)
  /\ scenario.annualCostPerDeveloper = Num(150000)
  /\ scenario.solutionCost = Num(1000000)
  /\ Keys(outcome.value) = {"solutionCost", "general"}

\* every field passes its own validator (revenuePercentage when tech)
EachFieldValid ==
  /\ OtherFieldsValid
  /\ isTechScenario(scenario) =>
       validateRevenuePercentage(scenario.revenuePercentage) = NoError

\* the keys of the cross-field heuristics that fire on the Scenario
FiringHeuristics ==
  (IF CostRatioHigh THEN {"solutionCost"} ELSE {})
    \cup (IF SmallInvestment THEN {"ctsSwImprovementPercent"} ELSE {})
    \cup (IF SmallTeam THEN {"general"} ELSE {})

\* C14: when every field of the Scenario passes its own validator and at
\* least one cross-field heuristic fires, validateScenario returns a mapping
\* with the heuristic's key, and calculateTraditionalBusiness and
\* calculateTechCompany both fail with a validation error.
C14_WarningsBlockCalculation ==
  (EachFieldValid /\ FiringHeuristics # {}) =>
    /\ lastCall = "validateScenario" =>
         /\ outcome.kind = "returned"
         /\ Keys(outcome.value) = FiringHeuristics
    /\ CalledCalculator =>
         /\ outcome.kind = "threw"
         /\ outcome.error.prefix = "Validation failed: "
         /\ Len(outcome.error.parts) = Cardinality(FiringHeuristics)

C14_Witness ==
  /\ lastCall = "calculateTraditionalBusiness"
  /\ scenario.developerCount = Num(10)
  /\ scenario.annualCostPerDeveloper = Num(100000)
  /\ scenario.ctsSwImprovementPercent = Num(15)
  /\ scenario.solutionCost = Num(600000)
  /\ EachFieldValid
  /\ FiringHeuristics = {"solutionCost"}
  /\ outcome.kind = "threw"
  /\ outcome.error.prefix = "Validation failed: "

\* the Scenario with its revenuePercentage replaced by rp
WithRevenue(rp) == [scenario EXCEPT !.revenuePercentage = rp]

\* C15: for a Scenario with businessType = traditional, validateScenario
\* and calculateTraditionalBusiness have the same outcome as on any Scenario
\* that differs from it only in revenuePercentage (absent, in range, out of
\* range or NaN).
C15_RevenueIgnoredForTraditional ==
  scenario.businessType = "traditional" =>
    /\ lastCall = "validateScenario" =>
         \A rp \in RevenuePercentages : validateScenario(WithRevenue(rp)) = outcome
    /\ lastCall = "calculateTraditionalBusiness" =>
         \A rp \in RevenuePercentages :
           calculateTraditionalBusiness(WithRevenue(rp)) = outcome

C15_Witness ==
  /\ ReturnedFrom("calculateTraditionalBusiness")
  /\ scenario.businessType = "traditional"
  /\ scenario.revenuePercentage = Num(101)
  /\ calculateTraditionalBusiness(WithRevenue(Undefined)) = outcome
  /\ outcome.value.roiMultiple = Rat(39, 4)

\* the message the per-field validator of key k gives for the Scenario;
\* revenuePercentage is validated for tech only, general has no validator
PerFieldError(k) ==
  CASE k = "developerCount" -> validateDeveloperCount(scenario.developerCount)
    [] k = "annualCostPerDeveloper" ->
         validateAnnualCostPerDeveloper(scenario.annualCostPerDeveloper)
    [] k = "ctsSwImprovementPercent" ->
         validateCtsSwImprovement(scenario.ctsSwImprovementPercent)
    [] k = "solutionCost" -> validateSolutionCost(scenario.solutionCost)
    [] k = "revenuePercentage" ->
         IF scenario.businessType = "tech"
         THEN validateRevenuePercentage(scenario.revenuePercentage)
         ELSE NoError
    [] OTHER -> NoError

ErrorKeys ==
  {"developerCount", "annualCostPerDeveloper", "ctsSwImprovementPercent",
   "solutionCost", "revenuePercentage", "general"}

\* C16: the mapping returned by validateScenario is the mapping of the
\* per-field results (revenuePercentage only when businessType = tech)
\* overridden by the mapping of validateCrossFieldConstraints: a key is
\* present exactly when its validator reports an error or a cross-field
\* rule sets it, and on a shared key the cross-field message is returned.
C16_ScenarioMappingIsOverride ==
  ReturnedFrom("validateScenario") =>
    LET errors == outcome.value
        cross == validateCrossFieldConstraints(scenario)
    IN  /\ cross.kind = "returned"
        /\ Keys(errors) \subseteq ErrorKeys
        /\ Len(errors) = Cardinality(Keys(errors))
        /\ \A k \in ErrorKeys :
             /\ HasKey(errors, k) <=> (PerFieldError(k) # NoError \/ HasKey(cross.value, k))
             /\ HasKey(cross.value, k) => Get(errors, k) = Get(cross.value, k)
             /\ (PerFieldError(k) # NoError /\ ~HasKey(cross.value, k)) =>
                  Get(errors, k) = PerFieldError(k)

C16_Witness ==
  /\ ReturnedFrom("validateScenario")
  /\ PerFieldError("ctsSwImprovementPercent") # NoError
  /\ HasKey(validateCrossFieldConstraints(scenario).value, "ctsSwImprovementPercent")
  /\ PerFieldError("developerCount") # NoError
  /\ PerFieldError("annualCostPerDeveloper") # NoError
  /\ Get(outcome.value, "ctsSwImprovementPercent") =
       Msg("$1% improvement may be unrealistic for a relatively small investment ($2)",
           <<scenario.ctsSwImprovementPercent, scenario.solutionCost>>)

\* the texts of the three cross-field messages
CrossFieldTexts ==
  {"Solution cost ($1) seems high relative to total developer cost ($2). Consider if this investment is realistic.",
   "$1% improvement may be unrealistic for a relatively small investment ($2)",
   "High solution cost for a small team. Consider if this investment makes sense for $1 developers."}

\* C17: validateField(fieldName, value, businessType) returns what the
\* per-field validator of that field returns for value and never a
\* cross-field message; for revenuePercentage it returns null unless
\* businessType is tech, also when businessType is omitted; for a field name
\* outside the five validated fields it returns null.
C17_ValidateFieldDelegates ==
  lastCall = "validateField" =>
    LET fieldName == callArgs[1]
        value == callArgs[2]
        businessType == callArgs[3]
        result == outcome.value
    IN  /\ outcome.kind = "returned"
        /\ result.text \notin CrossFieldTexts
        /\ fieldName = "developerCount" => result = validateDeveloperCount(value)
        /\ fieldName = "annualCostPerDeveloper" =>
             result = validateAnnualCostPerDeveloper(value)
        /\ fieldName = "ctsSwImprovementPercent" =>
             result = validateCtsSwImprovement(value)
        /\ fieldName = "solutionCost" => result = validateSolutionCost(value)
        /\ fieldName = "revenuePercentage" =>
             result = IF businessType = "tech"
                      THEN validateRevenuePercentage(value)
                      ELSE NoError
        /\ fieldName \notin {"developerCount", "annualCostPerDeveloper",
                             "ctsSwImprovementPercent", "solutionCost",
                             "revenuePercentage"} => result = NoError

C17_Witness ==
  /\ lastCall = "validateField"
  /\ callArgs = <<"revenuePercentage", Num(101), "omitted">>
  /\ outcome = Returned(NoError)
  /\ validateRevenuePercentage(Num(101)) # NoError

(***************************************************************************)
(* Repeated calls: the caller passes Scenarios that agree on businessType  *)
(* and the five numeric inputs and differ in the bookkeeping fields        *)
(***************************************************************************)
\* number of successive calls in a run of repeated calls
MaxRepeatCalls == 3

\* name, notes, organizationSize, createdAt, updatedAt of a Scenario
BaseBookkeeping ==
  [name |-> "Bank example", notes |-> "absent", organizationSize |-> "absent",
   createdAt |-> 1, updatedAt |-> 1]

Bookkeeping ==
  {BaseBookkeeping,
   [BaseBookkeeping EXCEPT !.name = ""],
   [BaseBookkeeping EXCEPT !.notes = "reviewed"],
   [BaseBookkeeping EXCEPT !.organizationSize = "enterprise"],
   [BaseBookkeeping EXCEPT !.createdAt = 2],
   [BaseBookkeeping EXCEPT !.updatedAt = 2],
   [name |-> "Bank example (copy)", notes |-> "reviewed",
    organizationSize |-> "small", createdAt |-> 2, updatedAt |-> 3]}

RepeatInputs ==
  {s \in Scenarios :
     /\ s.developerCount = Num(400)
     /\ s.annualCostPerDeveloper = Num(150000)
     /\ s.ctsSwImprovementPercent = Num(15)
     /\ s.solutionCost \in {Null, Num(1000000)}
     /\ s.revenuePercentage \in {Undefined, Num(0), Num(60)}}

\* a Scenario with all its fields
RepeatScenarios == {s @@ b : s \in RepeatInputs, b \in Bookkeeping}

\* businessType and the five numeric inputs
InputsOf(s) ==
  <<s.businessType, s.developerCount, s.annualCostPerDeveloper,
    s.ctsSwImprovementPercent, s.solutionCost, s.revenuePercentage>>

\* id, businessType and the five numeric inputs of the Scenario held
HeldInputs ==
  [id |-> scenario.id,
   businessType |-> scenario.businessType,
   developerCount |-> scenario.developerCount,
   annualCostPerDeveloper |-> scenario.annualCostPerDeveloper,
   ctsSwImprovementPercent |-> scenario.ctsSwImprovementPercent,
   solutionCost |-> scenario.solutionCost,
   revenuePercentage |-> scenario.revenuePercentage]

\* the Scenarios a caller can pass next: same inputs, any bookkeeping
Copies == {HeldInputs @@ b : b \in Bookkeeping}

\* the first call of an entry point is remembered
Remember(ep, s, r) ==
  IF previous[ep] = NoOutcome
  THEN [previous EXCEPT ![ep] = [scenario |-> s, outcome |-> r]]
  ELSE previous

RepeatInit ==
  /\ scenario \in RepeatScenarios
  /\ lastCall = "none"
  /\ callArgs = <<>>
  /\ outcome = NoOutcome
  /\ calls = 0
  /\ previous = NoPrevious
  /\ ranges = VALIDATION_RANGES
  /\ dashboard = NoDashboard
  /\ store = EmptyStore

RepeatValidateScenario ==
  \E s \in Copies :
    /\ calls < MaxRepeatCalls
    /\ scenario' = s
    /\ lastCall' = "validateScenario"
    /\ outcome' = validateScenario(s)
    /\ calls' = calls + 1
    /\ UNCHANGED <<callArgs, previous, ranges, dashboard, store>>

RepeatCalculateTraditionalBusiness ==
  \E s \in Copies :
    /\ calls < MaxRepeatCalls
    /\ scenario' = s
    /\ lastCall' = "calculateTraditionalBusiness"
    /\ outcome' = calculateTraditionalBusiness(s)
    /\ previous' = Remember("calculateTraditionalBusiness", s, outcome')
    /\ calls' = calls + 1
    /\ UNCHANGED <<callArgs, ranges, dashboard, store>>

RepeatCalculateTechCompany ==
  \E s \in Copies :
    /\ calls < MaxRepeatCalls
    /\ scenario' = s
    /\ lastCall' = "calculateTechCompany"
    /\ outcome' = calculateTechCompany(s)
    /\ previous' = Remember("calculateTechCompany", s, outcome')
    /\ calls' = calls + 1
    /\ UNCHANGED <<callArgs, ranges, dashboard, store>>

RepeatNext ==
  \/ RepeatValidateScenario
  \/ RepeatCalculateTraditionalBusiness
  \/ RepeatCalculateTechCompany

RepeatSpec == RepeatInit /\ [][RepeatNext]_vars

C20_NoOverwrite ==
  ReturnedFrom("validateScenario") =>
    \A k \in {"solutionCost", "ctsSwImprovementPercent"} :
      PerFieldError(k) # NoError => Get(outcome.value, k) = PerFieldError(k)

\* C20 amended: the per-field messages under developerCount,
\* annualCostPerDeveloper and revenuePercentage are never overwritten; a
\* per-field message under solutionCost or ctsSwImprovementPercent is
\* returned unless the cross-field rule of that key fires in the same call,
\* in which case it is replaced by the cross-field message.
C20_OverwriteBySameKeyRule ==
  ReturnedFrom("validateScenario") =>
    /\ \A k \in {"developerCount", "annualCostPerDeveloper", "revenuePercentage"} :
         PerFieldError(k) # NoError => Get(outcome.value, k) = PerFieldError(k)
    /\ \A k \in {"solutionCost", "ctsSwImprovementPercent"} :
         PerFieldError(k) # NoError =>
           IF k \in FiringHeuristics
           THEN /\ Get(outcome.value, k) # PerFieldError(k)
                /\ Get(outcome.value, k).text \in CrossFieldTexts
           ELSE Get(outcome.value, k) = PerFieldError(k)

C20_Witness ==
  /\ ReturnedFrom("validateScenario")
  /\ scenario.developerCount = Num(0)
  /\ scenario.solutionCost = Num(500)
  /\ PerFieldError("solutionCost") = Msg("Solution cost must be at least $1,000", <<>>)
  /\ "solutionCost" \in FiringHeuristics
  /\ Get(outcome.value, "solutionCost").text \in CrossFieldTexts

\* the keys of a mapping, in its own order
KeySeq(errors) == [i \in DOMAIN errors |-> errors[i].key]

FixedKeyOrder ==
  <<"developerCount", "annualCostPerDeveloper", "ctsSwImprovementPercent",
    "solutionCost", "revenuePercentage", "general">>

PositionOf(k) == CHOOSE i \in DOMAIN FixedKeyOrder : FixedKeyOrder[i] = k

\* the keys follow one another as in FixedKeyOrder
InFixedKeyOrder(errors) ==
  \A i, j \in DOMAIN errors :
    i < j => PositionOf(errors[i].key) < PositionOf(errors[j].key)

\* the keys with a per-field error, in the order the validators run
PerFieldKeySeq ==
  SelectSeq(SubSeq(FixedKeyOrder, 1, 5), LAMBDA k : PerFieldError(k) # NoError)

\* the keys only a cross-field rule sets, in the order the rules run
CrossOnlyKeySeq ==
  SelectSeq(<<"solutionCost", "ctsSwImprovementPercent", "general">>,
            LAMBDA k : k \in FiringHeuristics /\ PerFieldError(k) = NoError)

\* the failure is the validation failure built from validateScenario's mapping
IsValidationFailure ==
  LET v == validateScenario(scenario)
  IN  /\ v.kind = "returned"
      /\ v.value # <<>>
      /\ outcome.error.type = "Error"
      /\ outcome.error.prefix = "Validation failed: "
      /\ outcome.error.parts = Values(v.value)
      /\ Len(outcome.error.parts) = Cardinality(Keys(v.value))

\* C21 as stated: a failing entry point reports either the missing-revenue
\* message of calculateTechCompany, or 'Validation failed: ' followed by
\* every message of validateScenario's mapping once, in the key order
\* developerCount, annualCostPerDeveloper, ctsSwImprovementPercent,
\* solutionCost, revenuePercentage, general.
C21_MessageInFixedKeyOrder ==
  (CalledCalculator /\ outcome.kind = "threw") =>
    \/ lastCall = "calculateTechCompany" /\ outcome.error = RevenueRequired
    \/ IsValidationFailure /\ InFixedKeyOrder(validateScenario(scenario).value)

\* C21 amended: a failing entry point reports the missing-revenue message
\* of calculateTechCompany, or the TypeError raised inside the validator on
\* a null solutionCost, or 'Validation failed: ' followed by every message
\* of validateScenario's mapping once, in the mapping's insertion order:
\* the keys with a per-field error in validator order, then the keys only
\* a cross-field rule sets, in rule order.
C21_MessageInInsertionOrder ==
  (CalledCalculator /\ outcome.kind = "threw") =>
    \/ lastCall = "calculateTechCompany" /\ outcome.error = RevenueRequired
    \/ /\ outcome.error = TypeErrorNull
       /\ scenario.solutionCost = Null
       /\ validateScenario(scenario) = Threw(TypeErrorNull)
    \/ /\ IsValidationFailure
       /\ KeySeq(validateScenario(scenario).value) = PerFieldKeySeq \o CrossOnlyKeySeq

C21_Witness ==
  /\ lastCall = "calculateTechCompany"
  /\ outcome.kind = "threw"
  /\ IsValidationFailure
  /\ KeySeq(validateScenario(scenario).value) = <<"revenuePercentage", "solutionCost">>

\* the rule a message of a per-field validator belongs to
RuleOfText(text) ==
  CASE text \in {"Developer count is required and must be a number",
                 "Annual cost per developer is required and must be a number",
                 "CTS-SW improvement percentage is required and must be a number",
                 "Solution cost is required and must be a number",
                 "Revenue percentage is required for tech companies"} -> "missing"
    [] text = "Developer count must be a whole number (no decimals)" -> "whole number"
    [] text \in {"Annual cost per developer must be greater than zero",
                 "CTS-SW improvement percentage must be greater than zero",
                 "Solution cost must be greater than zero"} -> "greater than zero"
    [] text \in {"Developer count must be at least 1",
                 "Annual cost per developer must be at least $50,000 (includes salary, benefits, and tooling)",
                 "CTS-SW improvement must be at least 0.1%",
                 "Solution cost must be at least $1,000",
                 "Revenue percentage must be at least 0%"} -> "below min"
    [] text \in {"Developer count cannot exceed 50,000 (consider breaking into smaller teams)",
                 "Annual cost per developer cannot exceed $300,000 (AWS example: $130K)",
                 "CTS-SW improvement cannot exceed 50% (be realistic about achievable gains)",
                 "Solution cost cannot exceed $100,000,000",
                 "Revenue percentage cannot exceed 100%"} -> "above max"
    [] text = "" -> "none"
    [] OTHER -> "unknown"

\* the range of the field a per-field validator checks
RangeOf(name) ==
  CASE name = "validateDeveloperCount" -> VALIDATION_RANGES.developerCount
    [] name = "validateAnnualCostPerDeveloper" -> VALIDATION_RANGES.annualCostPerDeveloper
    [] name = "validateCtsSwImprovement" -> VALIDATION_RANGES.ctsSwImprovementPercent
    [] name = "validateSolutionCost" -> VALIDATION_RANGES.solutionCost
    [] name = "validateRevenuePercentage" -> VALIDATION_RANGES.revenuePercentage

SignCheckedValidators ==
  {"validateAnnualCostPerDeveloper", "validateCtsSwImprovement", "validateSolutionCost"}

\* the first rule, in the fixed order, that the value matches
FirstMatchingRule(name, value) ==
  IF IsMissing(value) THEN "missing"
  ELSE IF name = "validateDeveloperCount" /\ ~IsInteger(value) THEN "whole number"
  ELSE IF name \in SignCheckedValidators /\ Le(value, Zero) THEN "greater than zero"
  ELSE IF Lt(value, RangeOf(name).min) THEN "below min"
  ELSE IF Gt(value, RangeOf(name).max) THEN "above max"
  ELSE "none"

\* C22: each per-field validator returns the message of the first rule the
\* value matches, in the order missing/NaN, not a whole number
\* (developerCount only), value <= 0 (annualCostPerDeveloper,
\* ctsSwImprovementPercent, solutionCost), below min, above max; a value
\* <= 0 on those three fields never yields the 'at least' message and a
\* non-integer developerCount yields the 'whole number' message even when
\* it is out of range.
C22_FirstMatchingRule ==
  CalledFieldValidator =>
    LET value == callArgs[1]
        rule == RuleOfText(outcome.value.text)
    IN  /\ rule = FirstMatchingRule(lastCall, value)
        /\ (lastCall \in SignCheckedValidators /\ ~IsMissing(value) /\ Le(value, Zero)) =>
             rule # "below min"
        /\ (lastCall = "validateDeveloperCount" /\ ~IsMissing(value) /\ ~IsInteger(value)
              /\ (Lt(value, RangeOf(lastCall).min) \/ Gt(value, RangeOf(lastCall).max))) =>
             rule = "whole number"

C22_Witness ==
  /\ lastCall = "validateDeveloperCount"
  /\ callArgs = <<Rat(9, 100)>>
  /\ Lt(callArgs[1], VALIDATION_RANGES.developerCount.min)
  /\ outcome.value = Msg("Developer count must be a whole number (no decimals)", <<>>)

(***************************************************************************)
(* CalculatorDashboard: scenario is the state currentScenario; dashboard   *)
(* holds calculationResults, calculationError and the validationErrors of  *)
(* the useInputValidation hook.  The effect runs calculateResults after    *)
(* every render whose currentScenario or calculateResults changed.         *)
(***************************************************************************)
MaxInputChanges == 2

\* delete errors[k]
Delete(errors, k) == SelectSeq(errors, LAMBDA e : e.key # k)

\* useInputValidation.validateField: the businessType argument is not passed
hookValidateField(errors, field, value) ==
  Eval2(errors, [key |-> field, msg |-> validateField(field, value, "undefined")],
        LAMBDA prev, entry :
          IF entry.msg # NoError THEN PutEntry(prev, entry) ELSE Delete(prev, entry.key))

\* the calculator entry point chosen by calculateResults
calculate(s) ==
  IF s.businessType = "tech" THEN calculateTechCompany(s)
  ELSE calculateTraditionalBusiness(s)

\* mutant: an invalid scenario leaves the previous results in place
calculateResults_KeepOnInvalid(s, d) ==
  Eval3(validateScenario(s), calculate(s), d,
        LAMBDA errors, results, prev :
          IF errors.kind = "threw"
          THEN [prev EXCEPT !.calculationError = errors.error,
                            !.calculationResults = NullRef,
                            !.effectPending = FALSE]
          ELSE IF errors.value # <<>>
          THEN [prev EXCEPT !.calculationError = NullRef,
                            !.validationErrors = errors.value,
                            !.effectPending = FALSE]
          ELSE IF results.kind = "threw"
          THEN [calculationResults |-> NullRef, calculationError |-> results.error,
                validationErrors |-> errors.value, effectPending |-> FALSE]
          ELSE [calculationResults |-> results.value, calculationError |-> NullRef,
                validationErrors |-> errors.value, effectPending |-> FALSE])

\* calculateResults(scenario) with the state updates of the hook's
\* validateScenario; d is the dashboard state before the call
calculateResults(s, d) ==
  Eval3(validateScenario(s), calculate(s), d,
        LAMBDA errors, results, prev :
          IF errors.kind = "threw"
          THEN [prev EXCEPT !.calculationError = errors.error,
                            !.calculationResults = NullRef,
                            !.effectPending = FALSE]
          ELSE IF errors.value # <<>>
          THEN [calculationResults |-> NullRef, calculationError |-> NullRef,
                validationErrors |-> errors.value, effectPending |-> FALSE]
          ELSE IF results.kind = "threw"
          THEN [calculationResults |-> NullRef, calculationError |-> results.error,
                validationErrors |-> errors.value, effectPending |-> FALSE]
          ELSE [calculationResults |-> results.value, calculationError |-> NullRef,
                validationErrors |-> errors.value, effectPending |-> FALSE])

\* the scenario returned by the updater of handleInputChange
updatedScenario(prev, field, value) ==
  IF field = "businessType"
  THEN [prev EXCEPT !.businessType = value,
                    !.revenuePercentage =
                      IF value = "traditional" THEN Undefined
                      ELSE IF value = "tech" /\ Falsy(prev.revenuePercentage)
                      THEN Num(60)
                      ELSE prev.revenuePercentage]
  ELSE [prev EXCEPT ![field] = value]

\* hasValidationErrors
hasValidationErrors == dashboard.validationErrors # <<>>

\* the condition under which the ResultsPanel is rendered
ResultsPanelRendered ==
  dashboard.calculationResults # NullRef /\ ~hasValidationErrors

\* the initialScenario prop, or the scenario of a quick action
InitialScenarios == {BankExample, TechExample}

\* the numbers the InputPanel passes to handleInputChange
InputChanges ==
  [field : {"developerCount"}, value : {Num(0), Num(9), Num(400)}]
    \cup [field : {"ctsSwImprovementPercent"}, value : {Num(0), Num(15), Num(60)}]
    \cup [field : {"solutionCost"}, value : {Num(500), Num(1000000), Num(2000000)}]
    \cup [field : {"revenuePercentage"}, value : {Num(0), Num(60), Num(101)}]
    \cup [field : {"businessType"}, value : {"traditional", "tech"}]

DashboardInit ==
  /\ scenario \in InitialScenarios
  /\ lastCall = "mount"
  /\ callArgs = <<>>
  /\ outcome = NoOutcome
  /\ calls = 0
  /\ previous = NoPrevious
  /\ ranges = VALIDATION_RANGES
  /\ dashboard = NoDashboard
  /\ store = EmptyStore

\* the effect: calculateResults(currentScenario)
CalculateResults ==
  /\ lastCall' = "calculateResults"
  /\ dashboard' = calculateResults(scenario, dashboard)
  /\ UNCHANGED <<scenario, callArgs, outcome, calls, previous, ranges, store>>

HandleInputChange ==
  /\ calls < MaxInputChanges
  /\ \E c \in InputChanges :
       /\ callArgs' = <<c.field, c.value>>
       /\ scenario' = updatedScenario(scenario, c.field, c.value)
       /\ dashboard' =
            [dashboard EXCEPT
               !.validationErrors = hookValidateField(@, c.field, c.value),
               !.effectPending = TRUE]
  /\ lastCall' = "handleInputChange"
  /\ calls' = calls + 1
  /\ UNCHANGED <<outcome, previous, ranges, store>>

LoadAwsBankExample ==
  /\ calls < MaxInputChanges
  /\ scenario' = BankExample
  /\ dashboard' = [dashboard EXCEPT !.effectPending = TRUE]
  /\ lastCall' = "loadAwsBankExample"
  /\ calls' = calls + 1
  /\ UNCHANGED <<callArgs, outcome, previous, ranges, store>>

LoadAwsTechExample ==
  /\ calls < MaxInputChanges
  /\ scenario' = TechExample
  /\ dashboard' = [dashboard EXCEPT !.effectPending = TRUE]
  /\ lastCall' = "loadAwsTechExample"
  /\ calls' = calls + 1
  /\ UNCHANGED <<callArgs, outcome, previous, ranges, store>>

DashboardNext ==
  \/ CalculateResults
  \/ HandleInputChange
  \/ LoadAwsBankExample
  \/ LoadAwsTechExample

DashboardSpec == DashboardInit /\ [][DashboardNext]_vars

\* the effect has run calculateResults on the current scenario
EffectHasRun == ~dashboard.effectPending

\* C23: once calculateResults(scenario) has run, calculationResults is
\* non-null only if validateScenario(scenario) returned an empty mapping and
\* the calculator returned; it is null after any validation error or
\* exception; and the ResultsPanel is rendered only when calculationResults
\* is non-null and validationErrors is empty
C23_ResultsWithheldWhileInvalid ==
  /\ EffectHasRun =>
       /\ dashboard.calculationResults # NullRef =>
            /\ validateScenario(scenario) = Returned(<<>>)
            /\ calculate(scenario) = Returned(dashboard.calculationResults)
            /\ dashboard.calculationError = NullRef
       /\ validateScenario(scenario) # Returned(<<>>) =>
            dashboard.calculationResults = NullRef
       /\ calculate(scenario).kind = "threw" =>
            dashboard.calculationResults = NullRef
  /\ ResultsPanelRendered =>
       dashboard.calculationResults # NullRef /\ dashboard.validationErrors = <<>>

\* an invalid scenario follows a calculated one and its results are withheld
C23_Witness ==
  /\ EffectHasRun
  /\ lastCall = "calculateResults"
  /\ calls = 1
  /\ validateScenario(scenario) # Returned(<<>>)
  /\ dashboard.calculationResults = NullRef
  /\ ~ResultsPanelRendered

(***************************************************************************)
(* ScenarioManager: store.scenarios is the array kept as JSON under the    *)
(* key 'roi-calculator-scenarios'; store.nextId numbers the ids returned   *)
(* by generateId and store.now is the clock read by new Date().  Strings   *)
(* of stored scenarios are tagged values, so that typeof can be modelled.  *)
(***************************************************************************)
MaxStoreCalls == 2

Str(s) == [t |-> "string", s |-> s]

Bool(b) == [t |-> "boolean", b |-> b]

\* an object parsed from JSON, with its properties (Undefined when absent)
Obj(v) == [t |-> "object", v |-> v]

typeof(x) ==
  CASE x.t = "string" -> "string"
    [] x.t = "boolean" -> "boolean"
    [] x.t = "undefined" -> "undefined"
    [] x.t \in {"null", "object"} -> "object"
    [] OTHER -> "number"

\* JSON.parse(JSON.stringify(x)) of a property value: NaN and the
\* infinities are written as null, -0 as 0
jsonValue(x) ==
  CASE x.t \in {"NaN", "inf", "-inf"} -> Null
    [] x.t = "-0" -> Zero
    [] OTHER -> x

jsonScenario(s) == [f \in DOMAIN s |-> jsonValue(s[f])]

\* the array read back after localStorage.setItem(JSON.stringify(list))
jsonScenarios(list) == [i \in DOMAIN list |-> jsonScenario(list[i])]

\* new Date(x): a time stamp, or Invalid Date (whose time value is NaN)
toDate(x) == IF x.t = "num" THEN x ELSE IF x.t = "null" THEN Zero ELSE NaN

generateId(n) == Str("scenario-" \o ToString(n))

getAllScenarios(st) ==
  [i \in DOMAIN st.scenarios |->
     [st.scenarios[i] EXCEPT !.createdAt = toDate(@), !.updatedAt = toDate(@)]]

\* scenarios.findIndex(s => s.id === id), 0 for -1
findIndex(list, id) ==
  IF \E i \in DOMAIN list : list[i].id = id
  THEN CHOOSE i \in DOMAIN list :
         list[i].id = id /\ \A j \in 1..(i - 1) : list[j].id # id
  ELSE 0

getScenario(st, id) ==
  LET scenarios == getAllScenarios(st)
      i == findIndex(scenarios, id)
  IN  IF i = 0 THEN Null ELSE scenarios[i]

\* mutant: the scenario is always pushed
saveScenario_AlwaysPush(st, s) ==
  [st EXCEPT !.scenarios =
     jsonScenarios(Append(getAllScenarios(st), [s EXCEPT !.updatedAt = Num(st.now)]))]

\* the store after saveScenario(s)
saveScenario(st, s) ==
  LET scenarios == getAllScenarios(st)
      existingIndex == findIndex(scenarios, s.id)
      updated == [s EXCEPT !.updatedAt = Num(st.now)]
  IN  [st EXCEPT !.scenarios =
         jsonScenarios(IF existingIndex > 0
                       THEN [scenarios EXCEPT ![existingIndex] = updated]
                       ELSE Append(scenarios, updated))]

\* the scenario returned by createScenario(scenarioData) and the store after
createScenario(st, scenarioData) ==
  LET s == scenarioData @@
             [id |-> generateId(st.nextId), createdAt |-> Num(st.now),
              updatedAt |-> Num(st.now)]
  IN  [result |-> s, store |-> [saveScenario(st, s) EXCEPT !.nextId = @ + 1]]

\* mutant: true is returned although no scenario had the id
deleteScenario_AlwaysTrue(st, id) ==
  [result |-> Bool(TRUE),
   store |-> [st EXCEPT !.scenarios =
                jsonScenarios(SelectSeq(getAllScenarios(st), LAMBDA s : s.id # id))]]

\* the value returned by deleteScenario(id) and the store after
deleteScenario(st, id) ==
  LET scenarios == getAllScenarios(st)
      filteredScenarios == SelectSeq(scenarios, LAMBDA s : s.id # id)
  IN  IF Len(filteredScenarios) = Len(scenarios)
      THEN [result |-> Bool(FALSE), store |-> st]
      ELSE [result |-> Bool(TRUE),
            store |-> [st EXCEPT !.scenarios = jsonScenarios(filteredScenarios)]]

\* the value returned by duplicateScenario(id, newName) and the store after
duplicateScenario(st, id, newName) ==
  LET originalScenario == getScenario(st, id)
  IN  IF originalScenario = Null THEN [result |-> Null, store |-> st]
      ELSE createScenario(st,
             [f \in DOMAIN originalScenario \ {"id", "createdAt", "updatedAt"} |->
                CASE f = "name" ->
                       IF newName.t = "string" /\ newName.s # "" THEN newName
                       ELSE Str(originalScenario.name.s \o " (Copy)")
                  [] f = "notes" ->
                       IF originalScenario.notes.t = "string"
                            /\ originalScenario.notes.s # ""
                       THEN Str(originalScenario.notes.s \o "\n\nDuplicated from: "
                                  \o originalScenario.name.s)
                       ELSE Str("Duplicated from: " \o originalScenario.name.s)
                  [] OTHER -> originalScenario[f]])

clearAllScenarios(st) == [st EXCEPT !.scenarios = <<>>]

\* reading a property of null
TypeErrorNullProperty ==
  [type |-> "TypeError", prefix |-> "Cannot read properties of null", parts |-> <<>>]

ImportFailed ==
  [type |-> "Error", prefix |-> "Failed to import scenarios: Invalid JSON format",
   parts |-> <<>>]

\* isValidScenario(scenario): typeof null is 'object', so scenario.id is
\* read on null
isValidScenario(x) ==
  IF typeof(x) # "object" THEN Returned(FALSE)
  ELSE IF x.t = "null" THEN Threw(TypeErrorNullProperty)
  ELSE Returned(/\ typeof(x.v.id) = "string"
                /\ typeof(x.v.name) = "string"
                /\ x.v.businessType \in {Str("traditional"), Str("tech")}
                /\ typeof(x.v.developerCount) = "number"
                /\ typeof(x.v.annualCostPerDeveloper) = "number"
                /\ typeof(x.v.ctsSwImprovementPercent) = "number"
                /\ typeof(x.v.solutionCost) = "number"
                /\ (x.v.revenuePercentage = Undefined
                      \/ typeof(x.v.revenuePercentage) = "number"))

\* mutant: an imported scenario keeps its id
importedId_Keep(existingScenarios, s, n) == s.id

\* the id under which an imported scenario is pushed
importedId(existingScenarios, s, n) ==
  IF \E i \in DOMAIN existingScenarios : existingScenarios[i].id = s.id
  THEN generateId(n)
  ELSE s.id

RECURSIVE importEntries(_, _, _, _)
\* the loop of importScenarios over the entries that remain
importEntries(entries, existingScenarios, importedCount, n) ==
  IF entries = <<>>
  THEN Returned([scenarios |-> existingScenarios, count |-> importedCount, nextId |-> n])
  ELSE LET valid == isValidScenario(Head(entries))
       IN  IF valid.kind = "threw" THEN valid
           ELSE IF ~valid.value
           THEN importEntries(Tail(entries), existingScenarios, importedCount, n)
           ELSE LET s == Head(entries).v
                    id == importedId(existingScenarios, s, n)
                    pushed == [s EXCEPT !.id = id,
                                        !.createdAt = toDate(@),
                                        !.updatedAt = toDate(@)]
                IN  importEntries(Tail(entries), Append(existingScenarios, pushed),
                                  importedCount + 1,
                                  IF id = s.id THEN n ELSE n + 1)

\* the outcome of importScenarios(jsonData, overwrite) and the store after
importScenarios(st, jsonData, overwrite) ==
  IF jsonData.kind # "array" THEN [result |-> Threw(ImportFailed), store |-> st]
  ELSE Eval3(importEntries(jsonData.items,
                           IF overwrite THEN <<>> ELSE getAllScenarios(st), 0,
                           st.nextId),
             st, overwrite,
             LAMBDA r, s0, o :
               IF r.kind = "threw" THEN [result |-> Threw(ImportFailed), store |-> s0]
               ELSE [result |-> Returned(Num(r.value.count)),
                     store |-> [s0 EXCEPT !.scenarios = jsonScenarios(r.value.scenarios),
                                          !.nextId = r.value.nextId]])

\* scenarioData: a traditional scenario, a tech scenario with notes, and a
\* scenario holding NaN and Infinity
ScenarioData ==
  { [name |-> Str("Bank"), businessType |-> Str("traditional"),
     developerCount |-> Num(1000), annualCostPerDeveloper |-> Num(130000),
     ctsSwImprovementPercent |-> Num(15), solutionCost |-> Num(2000000),
     revenuePercentage |-> Undefined, notes |-> Undefined],
    [name |-> Str("Tech"), businessType |-> Str("tech"),
     developerCount |-> Num(400), annualCostPerDeveloper |-> Num(150000),
     ctsSwImprovementPercent |-> Num(15), solutionCost |-> Num(1000000),
     revenuePercentage |-> Num(60), notes |-> Str("pilot")],
    [name |-> Str("Odd"), businessType |-> Str("traditional"),
     developerCount |-> NaN, annualCostPerDeveloper |-> Num(130000),
     ctsSwImprovementPercent |-> NegZero, solutionCost |-> Infinity,
     revenuePercentage |-> Undefined, notes |-> Undefined] }

\* ids chosen by callers; generateId never returns them
CallerIds == {Str("a"), Str("b")}

\* the scenarios passed to saveScenario
SavedScenarios ==
  {d @@ [id |-> i, createdAt |-> Zero, updatedAt |-> Zero] :
     d \in ScenarioData, i \in CallerIds}

\* the ids passed to getScenario, deleteScenario and duplicateScenario
LookupIds == CallerIds \cup {generateId(1)}

NewNames == {Undefined, Str("Renamed")}

\* the entries of an imported array: null, a number, an object without
\* numeric fields, and valid scenarios under the ids a and b
ImportEntries ==
  {Null, Num(5)}
    \cup {Obj([d EXCEPT !.developerCount = Null] @@
                [id |-> Str("a"), createdAt |-> Zero, updatedAt |-> Zero]) :
            d \in {x \in ScenarioData : x.name = Str("Bank")}}
    \cup {Obj(d @@ [id |-> i, createdAt |-> Zero, updatedAt |-> Undefined]) :
            d \in {x \in ScenarioData : x.name = Str("Tech")}, i \in CallerIds}

MaxImportLen == 2

\* JSON.parse(jsonData): an array of entries, another JSON value, or text
\* that is not JSON
JsonData ==
  {[kind |-> "array", items |-> items] :
     items \in UNION {[1..n -> ImportEntries] : n \in 0..MaxImportLen}}
    \cup {[kind |-> "object"], [kind |-> "invalid"]}

StoreInit ==
  /\ scenario = BankExample
  /\ lastCall = "none"
  /\ callArgs = <<>>
  /\ outcome = NoOutcome
  /\ calls = 0
  /\ previous = NoPrevious
  /\ ranges = VALIDATION_RANGES
  /\ dashboard = NoDashboard
  /\ store = EmptyStore

SaveScenario ==
  /\ calls < MaxStoreCalls
  /\ \E s \in SavedScenarios :
       /\ callArgs' = <<s>>
       /\ store' = [saveScenario(store, s) EXCEPT !.now = @ + 1]
  /\ lastCall' = "saveScenario"
  /\ outcome' = Returned(Undefined)
  /\ calls' = calls + 1
  /\ UNCHANGED <<scenario, previous, ranges, dashboard>>

CreateScenario ==
  /\ calls < MaxStoreCalls
  /\ \E d \in ScenarioData :
       /\ callArgs' = <<d>>
       /\ outcome' = Returned(createScenario(store, d).result)
       /\ store' = [createScenario(store, d).store EXCEPT !.now = @ + 1]
  /\ lastCall' = "createScenario"
  /\ calls' = calls + 1
  /\ UNCHANGED <<scenario, previous, ranges, dashboard>>

DeleteScenario ==
  /\ calls < MaxStoreCalls
  /\ \E id \in LookupIds :
       /\ callArgs' = <<id>>
       /\ outcome' = Returned(deleteScenario(store, id).result)
       /\ store' = [deleteScenario(store, id).store EXCEPT !.now = @ + 1]
  /\ lastCall' = "deleteScenario"
  /\ calls' = calls + 1
  /\ UNCHANGED <<scenario, previous, ranges, dashboard>>

DuplicateScenario ==
  /\ calls < MaxStoreCalls
  /\ \E id \in LookupIds, newName \in NewNames :
       /\ callArgs' = <<id, newName>>
       /\ outcome' = Returned(duplicateScenario(store, id, newName).result)
       /\ store' = [duplicateScenario(store, id, newName).store EXCEPT !.now = @ + 1]
  /\ lastCall' = "duplicateScenario"
  /\ calls' = calls + 1
  /\ UNCHANGED <<scenario, previous, ranges, dashboard>>

ImportScenarios ==
  /\ calls < MaxStoreCalls
  /\ \E jsonData \in JsonData, overwrite \in BOOLEAN :
       /\ callArgs' = <<jsonData, overwrite>>
       /\ outcome' = importScenarios(store, jsonData, overwrite).result
       /\ store' = [importScenarios(store, jsonData, overwrite).store
                      EXCEPT !.now = @ + 1]
  /\ lastCall' = "importScenarios"
  /\ calls' = calls + 1
  /\ UNCHANGED <<scenario, previous, ranges, dashboard>>

ClearAllScenarios ==
  /\ calls < MaxStoreCalls
  /\ callArgs' = <<>>
  /\ store' = [clearAllScenarios(store) EXCEPT !.now = @ + 1]
  /\ lastCall' = "clearAllScenarios"
  /\ outcome' = Returned(Undefined)
  /\ calls' = calls + 1
  /\ UNCHANGED <<scenario, previous, ranges, dashboard>>

StoreNext ==
  \/ SaveScenario
  \/ CreateScenario
  \/ DeleteScenario
  \/ DuplicateScenario
  \/ ImportScenarios
  \/ ClearAllScenarios

StoreSpec == StoreInit /\ [][StoreNext]_vars

\* the ids of the stored scenarios, in order
StoredIds(st) == [i \in DOMAIN st.scenarios |-> st.scenarios[i].id]

\* the last call was operation name and it returned
StoreReturned(name) == lastCall = name /\ outcome.kind = "returned"

\* s and t agree on every field but updatedAt
SameButUpdatedAt(s, t) ==
  /\ DOMAIN s = DOMAIN t
  /\ \A f \in DOMAIN s \ {"updatedAt"} : s[f] = t[f]

\* the scenarios getAllScenarios returns whose id is not id, in order
Others(st, id) == SelectSeq(getAllScenarios(st), LAMBDA s : s.id # id)

\* C24 as stated: saveScenario(s) is an upsert by id
C24_SaveIsUpsert ==
  [][lastCall' = "saveScenario" =>
       LET s == callArgs'[1]
           had == \E i \in DOMAIN store.scenarios : store.scenarios[i].id = s.id
       IN  /\ getScenario(store', s.id) # Null
           /\ SameButUpdatedAt(getScenario(store', s.id), s)
           /\ getScenario(store', s.id).updatedAt = Num(store.now)
           /\ had => /\ Len(store'.scenarios) = Len(store.scenarios)
                     /\ StoredIds(store') = StoredIds(store)
           /\ ~had => /\ Len(store'.scenarios) = Len(store.scenarios) + 1
                      /\ store'.scenarios[Len(store'.scenarios)].id = s.id
           /\ Others(store', s.id) = Others(store, s.id)]_vars

\* every field of s is a value that JSON keeps
JsonSafe(s) == jsonScenario(s) = s

\* C24: saveScenario(s) is an upsert by id: afterwards getScenario(s.id)
\* returns the fields of s as JSON keeps them (NaN and the infinities come
\* back as null, -0 as 0; a scenario of finite numbers comes back as given)
\* with updatedAt set to the time of the call; when a stored scenario had the
\* id the list keeps its length and order of ids, otherwise s is appended;
\* every stored scenario with another id is unchanged
C24_SaveIsUpsertOfJson ==
  [][lastCall' = "saveScenario" =>
       LET s == callArgs'[1]
           had == \E i \in DOMAIN store.scenarios : store.scenarios[i].id = s.id
       IN  /\ getScenario(store', s.id) # Null
           /\ SameButUpdatedAt(getScenario(store', s.id), jsonScenario(s))
           /\ JsonSafe(s) => SameButUpdatedAt(getScenario(store', s.id), s)
           /\ getScenario(store', s.id).updatedAt = Num(store.now)
           /\ had => /\ Len(store'.scenarios) = Len(store.scenarios)
                     /\ StoredIds(store') = StoredIds(store)
           /\ ~had => /\ Len(store'.scenarios) = Len(store.scenarios) + 1
                      /\ store'.scenarios[Len(store'.scenarios)].id = s.id
           /\ Others(store', s.id) = Others(store, s.id)]_vars

\* a scenario of finite numbers replaced the first of two stored scenarios
C24_Witness ==
  /\ lastCall = "saveScenario"
  /\ JsonSafe(callArgs[1])
  /\ Len(store.scenarios) = 2
  /\ store.scenarios[1].id = callArgs[1].id
  /\ store.scenarios[1].updatedAt = Num(store.now - 1)
  /\ store.scenarios[1].name = callArgs[1].name
  /\ store.scenarios[2].id # callArgs[1].id

\* C25: deleteScenario(id) returns true exactly when a stored scenario had
\* the id; after true getScenario(id) is null and the scenarios with other
\* ids are all that is stored, unchanged and in the same order; after false
\* the stored list is unchanged
C25_DeleteReportsRemoval ==
  [][lastCall' = "deleteScenario" =>
       LET id == callArgs'[1]
           had == \E i \in DOMAIN store.scenarios : store.scenarios[i].id = id
       IN  /\ outcome' = Returned(Bool(had))
           /\ had => /\ getScenario(store', id) = Null
                     /\ getAllScenarios(store') = Others(store, id)
           /\ ~had => store'.scenarios = store.scenarios]_vars

\* the first of two stored scenarios was deleted and the second is kept
C25_Witness ==
  /\ lastCall = "deleteScenario"
  /\ outcome = Returned(Bool(TRUE))
  /\ Len(store.scenarios) = 1
  /\ store.scenarios[1].id # callArgs[1]
  /\ callArgs[1] = Str("a")

\* the entries of an imported array that are structurally valid scenarios
ValidEntries(items) ==
  SelectSeq(items, LAMBDA x : x.t = "object" /\ isValidScenario(x) = Returned(TRUE))

\* an imported scenario as getAllScenarios returns it once it is stored
readBack(s) ==
  LET pushed == [s EXCEPT !.createdAt = toDate(@), !.updatedAt = toDate(@)]
  IN  [jsonScenario(pushed) EXCEPT !.createdAt = toDate(@), !.updatedAt = toDate(@)]

\* s and t agree on every field but id
SameButId(s, t) ==
  /\ DOMAIN s = DOMAIN t
  /\ \A f \in DOMAIN s \ {"id"} : s[f] = t[f]

\* importScenarios returned the number of valid entries of items and stored
\* them after the scenarios of before
ImportedAllValid(items, before) ==
  LET valid == ValidEntries(items)
      after == getAllScenarios(store')
  IN  /\ outcome' = Returned(Num(Len(valid)))
      /\ Len(after) = Len(before) + Len(valid)
      /\ SubSeq(after, 1, Len(before)) = before
      /\ \A i \in 1..Len(valid) :
           SameButId(after[Len(before) + i], readBack(valid[i].v))

\* C26 as stated: on a JSON array importScenarios skips the invalid entries,
\* null included, never fails, returns the number of valid entries and stores
\* them, after the stored scenarios when overwrite is false and alone when
\* it is true
C26_ImportSkipsInvalidEntries ==
  [][(lastCall' = "importScenarios" /\ callArgs'[1].kind = "array") =>
       ImportedAllValid(callArgs'[1].items,
                        IF callArgs'[2] THEN <<>> ELSE getAllScenarios(store))]_vars

\* the same for arrays without a null entry
ImportOfNonNullEntries ==
  [][(/\ lastCall' = "importScenarios"
      /\ callArgs'[1].kind = "array"
      /\ \A i \in DOMAIN callArgs'[1].items : callArgs'[1].items[i] # Null) =>
       ImportedAllValid(callArgs'[1].items,
                        IF callArgs'[2] THEN <<>> ELSE getAllScenarios(store))]_vars

\* an array with a null entry makes importScenarios throw and stores nothing
ImportOfNullEntryFails ==
  [][(/\ lastCall' = "importScenarios"
      /\ callArgs'[1].kind = "array"
      /\ \E i \in DOMAIN callArgs'[1].items : callArgs'[1].items[i] = Null) =>
       (outcome' = Threw(ImportFailed) /\ store'.scenarios = store.scenarios)]_vars

\* C27: from the empty store, with generateId returning fresh ids, no two
\* stored scenarios share an id after any sequence of createScenario,
\* saveScenario, duplicateScenario, deleteScenario, importScenarios and
\* clearAllScenarios
C27_StoredIdsUnique ==
  \A i, j \in DOMAIN store.scenarios :
    store.scenarios[i].id = store.scenarios[j].id => i = j

\* an import into a store holding id a of an array that carries id a twice:
\* both imported scenarios received generated ids
C27_Witness ==
  /\ lastCall = "importScenarios"
  /\ callArgs[2] = FALSE
  /\ outcome = Returned(Num(2))
  /\ Len(store.scenarios) = 3
  /\ callArgs[1].items[1].v.id = Str("a")
  /\ callArgs[1].items[2].v.id = Str("a")
  /\ StoredIds(store) = <<Str("a"), generateId(1), generateId(2)>>

Preset(id, businessType, developerCount, cost, improvement, solutionCost, revenue) ==
  [id |-> id, businessType |-> businessType, developerCount |-> developerCount,
   annualCostPerDeveloper |-> cost, ctsSwImprovementPercent |-> improvement,
   solutionCost |-> solutionCost, revenuePercentage |-> revenue]

\* Math.round of a positive number: halves are rounded up
MathRound(x) == Num((2 * x.n + x.d) \div (2 * x.d))

\* Math.max of two numbers
MathMax(x, y) == IF Lt(x, y) THEN y ELSE x

OrganizationSizes == {"small", "medium", "large", "enterprise"}

\* developerRange, costRange and solutionCostMultiplier of each size
ORGANIZATION_SIZE_CONFIGS ==
  [small |-> [developerRange |-> <<25, 100>>, costRange |-> <<100000, 120000>>,
              solutionCostMultiplier |-> Rat(2, 1)],
   medium |-> [developerRange |-> <<100, 500>>, costRange |-> <<110000, 130000>>,
               solutionCostMultiplier |-> Rat(5, 2)],
   large |-> [developerRange |-> <<500, 1000>>, costRange |-> <<120000, 140000>>,
              solutionCostMultiplier |-> Rat(3, 1)],
   enterprise |-> [developerRange |-> <<1000, 5000>>, costRange |-> <<130000, 150000>>,
                   solutionCostMultiplier |-> Rat(7, 2)]]

getAwsBenchmarkScenarios ==
  << Preset("aws-bank-benchmark", "traditional", Num(1000), Num(130000), Num(15),
            Num(2000000), Undefined),
     Preset("aws-tech-benchmark", "tech", Num(400), Num(150000), Num(15),
            Num(1000000), Num(60)),
     Preset("aws-achieved-benchmark", "traditional", Num(1000), Num(130000),
            Rat(159, 10), Num(2000000), Undefined) >>

\* getImprovementLevelPresets() without a base scenario
getImprovementLevelPresets ==
  LET improvementLevels == <<5, 10, 15, 20>>
  IN  [i \in DOMAIN improvementLevels |->
         Preset("preset-" \o ToString(improvementLevels[i]) \o "pct-improvement",
                "traditional", Num(500), Num(120000), Num(improvementLevels[i]),
                Num(1000000), Undefined)]

getTeamSizePresets ==
  LET teamSizes == << [size |-> 25, cost |-> 110000], [size |-> 100, cost |-> 120000],
                      [size |-> 500, cost |-> 130000], [size |-> 1000, cost |-> 135000],
                      [size |-> 2500, cost |-> 140000] >>
  IN  [i \in DOMAIN teamSizes |->
         Preset("preset-team-" \o ToString(teamSizes[i].size), "traditional",
                Num(teamSizes[i].size), Num(teamSizes[i].cost), Num(15),
                MathMax(Num(100000), Num(teamSizes[i].size * 2000)), Undefined)]

getIndustryPresets ==
  << Preset("preset-fintech", "tech", Num(200), Num(160000), Num(12), Num(800000),
            Num(80)),
     Preset("preset-ecommerce", "tech", Num(300), Num(140000), Num(15), Num(1200000),
            Num(70)),
     Preset("preset-bank", "traditional", Num(800), Num(125000), Num(15),
            Num(1800000), Undefined),
     Preset("preset-retail", "traditional", Num(150), Num(115000), Num(10),
            Num(500000), Undefined),
     Preset("preset-manufacturing", "traditional", Num(100), Num(110000), Num(8),
            Num(400000), Undefined) >>

\* mutant: the multiplier is not scaled to thousands
typicalSolutionCost_Unscaled(typicalDeveloperCount, config) ==
  MathRound(Mul(typicalDeveloperCount, config.solutionCostMultiplier))

\* Math.round(typicalDeveloperCount * config.solutionCostMultiplier * 1000)
typicalSolutionCost(typicalDeveloperCount, config) ==
  MathRound(Mul(Mul(typicalDeveloperCount, config.solutionCostMultiplier), Num(1000)))

getOrganizationSizePresets(organizationSize) ==
  LET config == ORGANIZATION_SIZE_CONFIGS[organizationSize]
      typicalDeveloperCount ==
        MathRound(Rat(config.developerRange[1] + config.developerRange[2], 2))
      typicalCostPerDeveloper ==
        MathRound(Rat(config.costRange[1] + config.costRange[2], 2))
      solutionCost == typicalSolutionCost(typicalDeveloperCount, config)
      conservative ==
        IF organizationSize = "small" THEN 8
        ELSE IF organizationSize = "medium" THEN 10 ELSE 12
      aggressive ==
        IF organizationSize = "small" THEN 18
        ELSE IF organizationSize = "medium" THEN 20 ELSE 22
      techRevenuePercentage ==
        IF organizationSize = "small" THEN 70
        ELSE IF organizationSize = "medium" THEN 65 ELSE 60
      techCost == Num(typicalCostPerDeveloper.n + 10000)
  IN  << Preset(organizationSize \o "-traditional-conservative", "traditional",
                typicalDeveloperCount, typicalCostPerDeveloper, Num(conservative),
                solutionCost, Undefined),
         Preset(organizationSize \o "-traditional-target", "traditional",
                typicalDeveloperCount, typicalCostPerDeveloper, Num(15),
                solutionCost, Undefined),
         Preset(organizationSize \o "-traditional-aggressive", "traditional",
                typicalDeveloperCount, typicalCostPerDeveloper, Num(aggressive),
                solutionCost, Undefined),
         Preset(organizationSize \o "-tech-conservative", "tech",
                typicalDeveloperCount, techCost, Num(conservative),
                solutionCost, Num(techRevenuePercentage)),
         Preset(organizationSize \o "-tech-target", "tech",
                typicalDeveloperCount, techCost, Num(15),
                solutionCost, Num(techRevenuePercentage)) >>

\* presets.find(s => s.id.includes('traditional-target')) || presets[0]
getDefaultScenarioForSize(organizationSize) ==
  getOrganizationSizePresets(organizationSize)[2]

\* the elements of a list
Elements(list) == {list[i] : i \in DOMAIN list}

\* every scenario a preset function returns
BuiltInPresets ==
  Elements(getAwsBenchmarkScenarios) \cup Elements(getImprovementLevelPresets)
    \cup Elements(getTeamSizePresets) \cup Elements(getIndustryPresets)
    \cup UNION {Elements(getOrganizationSizePresets(size)) : size \in OrganizationSizes}
    \cup {getDefaultScenarioForSize(size) : size \in OrganizationSizes}

\* a preset is loaded and the validator and the calculator are called on it
PresetInit ==
  /\ scenario \in BuiltInPresets
  /\ lastCall = "none"
  /\ callArgs = <<>>
  /\ outcome = NoOutcome
  /\ calls = 0
  /\ previous = NoPrevious
  /\ ranges = VALIDATION_RANGES
  /\ dashboard = NoDashboard
  /\ store = EmptyStore

PresetSpec == PresetInit /\ [][Next]_vars

\* C29: every built-in preset passes validateScenario with an empty mapping
\* (no range error, no cross-field warning), every tech preset carries a
\* non-zero revenuePercentage, and the calculator entry point of its business
\* type returns a result for it
C29_PresetsCalculable ==
  /\ scenario \in BuiltInPresets
  /\ validateScenario(scenario) = Returned(<<>>)
  /\ validateCrossFieldConstraints(scenario) = Returned(<<>>)
  /\ scenario.businessType = "tech" => ~Falsy(scenario.revenuePercentage)
  /\ lastCall = "validateScenario" => outcome = Returned(<<>>)
  /\ CalledMatchingEntryPoint => outcome.kind = "returned"

\* the tech preset of the enterprise size was validated and calculated
C29_Witness ==
  /\ scenario = getOrganizationSizePresets("enterprise")[5]
  /\ scenario.developerCount = Num(3000)
  /\ scenario.solutionCost = Num(10500000)
  /\ previous = NoPrevious
  /\ lastCall = "calculateTechCompany"
  /\ outcome.kind = "returned"
  /\ calls = MaxCalls

\* C30: whenever a calculator entry point returns a result, solutionCost is
\* at most half of totalDeveloperCost, hence roiMultiple >= 2 *
\* ctsSwImprovementPercent / 100 and roiPercentage > -100; a team of fewer
\* than 10 developers has solutionCost <= 500000; and a solutionCost below
\* 0.005 of totalDeveloperCost comes with ctsSwImprovementPercent <= 15
C30_ResultImpliesCrossFieldBounds ==
  (CalledCalculator /\ outcome.kind = "returned") =>
    LET totalDeveloperCost ==
          Mul(scenario.developerCount, scenario.annualCostPerDeveloper)
    IN  /\ outcome.value.totalDeveloperCost = totalDeveloperCost
        /\ Le(scenario.solutionCost, Div(totalDeveloperCost, Num(2)))
        /\ Le(Mul(Num(2), Div(scenario.ctsSwImprovementPercent, Num(100))),
              outcome.value.roiMultiple)
        /\ Gt(outcome.value.roiPercentage, Num(-100))
        /\ Lt(scenario.developerCount, Num(10)) =>
             Le(scenario.solutionCost, Num(500000))
        /\ Lt(scenario.solutionCost, Mul(Rat(5, 1000), totalDeveloperCost)) =>
             Le(scenario.ctsSwImprovementPercent, Num(15))

\* a result for 9 developers and a solution cost of 1000, which is below
\* 0.005 of the total developer cost, at 15 percent improvement
C30_Witness ==
  /\ CalledCalculator
  /\ outcome.kind = "returned"
  /\ scenario.developerCount = Num(9)
  /\ scenario.solutionCost = Num(1000)
  /\ scenario.ctsSwImprovementPercent = Num(15)
  /\ Lt(scenario.solutionCost,
        Mul(Rat(5, 1000), Mul(scenario.developerCount, scenario.annualCostPerDeveloper)))

====
